---- MODULE Spec2Model ----
(***************************************************************************)
(* Model of src/core/audiofilters.cpp: the audio nodes AudioTrim,          *)
(* AudioSplice, AudioMix and ShuffleChannels, each as a constructor        *)
(* (xxxCreate) and a two-phase frame callback (arInitial: request the      *)
(* upstream frames, arAllFramesReady: fetch them and build the output).    *)
(*                                                                         *)
(* Machine integers are scaled down: `int` has the range                   *)
(* -IntMax-1 .. IntMax and `int64_t` the range -Int64Max-1 .. Int64Max,    *)
(* with IntMax * SamplesPerFrame < Int64Max as in the program              *)
(* (2^31 * 3072 < 2^63).  Every cast, saturation and truncation of the     *)
(* source is kept.                                                         *)
(***************************************************************************)
EXTENDS Integers, Sequences, FiniteSets, TLC

VARIABLES
    pc,     \* "start", "created", "requested", "done"
    in,     \* the constructor's arguments (VSMap *in)
    out,    \* the constructor's result (VSMap *out): error and/or clip
    cur,    \* the output frame index n of the frame callback in progress
    reqs,   \* the requests issued by the arInitial call for frame cur
    ret,    \* the frame returned by the arAllFramesReady call for frame cur
    outIdx, \* the output index of the frame context (nodes with several outputs)
    held,   \* frame references the finished callback obtained and did not release
    heap,   \* BlankAudio: the frames allocated so far, with their reference counts
    thr,    \* BlankAudio: the worker threads inside blankAudioGetframe
    rets,   \* BlankAudio: the frame references handed to the callers so far
    log,    \* the vsapi calls of the arAllFramesReady call for frame cur
    nrefs   \* the VSNodeRef acquisitions and releases of the constructor

aux == <<outIdx, held, heap, thr, rets>>

vars == <<pc, in, out, cur, reqs, ret, log, nrefs, aux>>

\* a frame callback that made no vsapi call and returned nullptr: fetched are
\* the getFrameFilter calls, requested the requestFrameFilter calls,
\* allocated the lengths of the newAudioFrame calls, copies the memcpy and
\* memset calls, freed the freeFrame calls (positions in fetched), returned
\* the frame returned (-1 none, 0 the allocated frame, k the k-th fetched)
NoLog ==
    [fetched |-> <<>>, requested |-> <<>>, allocated |-> <<>>, copies |-> <<>>,
     freed |-> <<>>, returned |-> 0 - 1]

\* a constructor that has not run.  acquired: the references obtained by
\* propGetNode and cloneNodeRef in call order, each entry naming the node
\* referred to (0 an upstream node, j the j-th node created here); released:
\* the references passed to freeNode (positions in acquired); nodes: the
\* nodes created by createAudioFilter, each with the references its instance
\* data keeps, its reference count and whether it still exists; map: the
\* node under the key "clip" of the out map (-1 none)
NoRefs ==
    [acquired |-> <<>>, released |-> <<>>, nodes |-> <<>>, map |-> 0 - 1]

\* the variables of the scenarios that do not use them
AuxIdle ==
    /\ outIdx = 0 /\ held = {} /\ heap = <<>> /\ thr = <<>> /\ rets = <<>>
    /\ log = NoLog /\ nrefs = NoRefs

----------------------------------------------------------------------------
(* Bounds of the model *)

\* largest value of the scaled `int`
IntMax == 7
\* largest value of the scaled `int64_t`
Int64Max == 63
\* format->samplesPerFrame of every stream
SamplesPerFrame == 3
\* longest source stream of the Trim and Splice scenarios, in samples
MaxSamples == 10
\* scaled bitsPerSample of the 16-bit, 24-bit and 32-bit integer formats
Bits16 == 4
Bits24 == 5
Bits32 == 7
\* scaled precision (significand bits) of `float`; Bits24 <= FloatBits < Bits32
FloatBits == 5
\* sample count of the sources of the Mix and Shuffle scenarios
MixSamples == 4
\* the default sample rate of the generators (44100 in the program) and the
\* seconds of their default length (60 * 60 in the program), scaled
DefaultSampleRate == 2
DefaultSeconds == 2
\* worker threads of the frame scheduler and frame requests per run
NumThreads == 2
MaxRequests == 3

----------------------------------------------------------------------------
(* Machine arithmetic *)

Min(a, b) == IF a < b THEN a ELSE b
Max(a, b) == IF a > b THEN a ELSE b

\* conversion of x to `int` (two's complement wrap), as in std::min<int>(...)
ToInt(x) == ((x + IntMax + 1) % (2 * IntMax + 2)) - IntMax - 1

\* x in the `int64_t` range after a wrapping addition
ToInt64(x) == ((x + Int64Max + 1) % (2 * Int64Max + 2)) - Int64Max - 1

\* VSHelper.h: saturating conversion int64_t -> int
int64ToIntS(x) ==
    IF x > IntMax THEN IntMax
    ELSE IF x < 0 - IntMax - 1 THEN 0 - IntMax - 1
    ELSE x

\* C++ integer division and remainder (truncation toward zero), b > 0
CDiv(a, b) == IF a >= 0 THEN a \div b ELSE 0 - ((0 - a) \div b)
CMod(a, b) == a - b * CDiv(a, b)

\* ceil(a / b) for a >= 0, b > 0
CeilDiv(a, b) == (a + b - 1) \div b

----------------------------------------------------------------------------
(* Formats, stream descriptors, frames *)

RECURSIVE PopCount(_)
\* std::bitset<64>(mask).count()
PopCount(mask) == IF mask <= 0 THEN 0 ELSE (mask % 2) + PopCount(mask \div 2)

RECURSIVE Pow2(_)
Pow2(k) == IF k <= 0 THEN 1 ELSE 2 * Pow2(k - 1)

\* layout & (1 << j)
HasBit(mask, j) == (mask \div Pow2(j)) % 2 = 1

\* VSAudioFormat
AudioFormat(sampleType, bits, bytes, layout) ==
    [sampleType |-> sampleType, bitsPerSample |-> bits, bytesPerSample |-> bytes,
     channelLayout |-> layout, numChannels |-> PopCount(layout),
     samplesPerFrame |-> SamplesPerFrame]

\* VSAudioInfo of a stream with ns samples
AudioInfo(format, rate, ns) ==
    [format |-> format, sampleRate |-> rate, numSamples |-> ns,
     numFrames |-> ToInt(CeilDiv(ns, format.samplesPerFrame))]

\* content of a buffer position that was never written
Junk == 0 - 1

\* sample i of channel ch (physical index) of source stream clip
SrcSample(clip, ch, i) == clip.seed + clip.step * ch + clip.slope * i

\* an upstream stream: a node whose frames satisfy the frame-length invariant
SrcClipWith(id, format, rate, ns, seed, step, slope) ==
    [kind |-> "src", id |-> id, seed |-> seed, step |-> step, slope |-> slope,
     ai |-> AudioInfo(format, rate, ns)]

\* a source whose samples differ between any two positions and channels
SrcClip(id, format, rate, ns, seed) ==
    SrcClipWith(id, format, rate, ns, seed, 100, 1)

NoNode == [kind |-> "none"]

Channels(format) == 0 .. (format.numChannels - 1)
Positions(format) == 0 .. (format.samplesPerFrame - 1)

\* length of frame n of a stream described by ai
FrameLen(ai, n) ==
    Min(ai.format.samplesPerFrame, ai.numSamples - n * ai.format.samplesPerFrame)

\* frame n of a source stream
SrcFrame(clip, n) ==
    [length |-> FrameLen(clip.ai, n),
     ref |-> <<"src", clip.id, n>>,
     data |-> [ch \in Channels(clip.ai.format) |->
                 [i \in Positions(clip.ai.format) |->
                    IF i < FrameLen(clip.ai, n)
                    THEN SrcSample(clip, ch, n * clip.ai.format.samplesPerFrame + i)
                    ELSE Junk]]]

\* vsapi->newAudioFrame: a writable frame of the given length, contents unset
newAudioFrame(format, length) ==
    [length |-> length,
     ref |-> <<"new", 0, 0>>,
     data |-> [ch \in Channels(format) |-> [i \in Positions(format) |-> Junk]]]

NoFrame == [length |-> 0, ref |-> <<"none", 0, 0>>, data |-> <<>>]

\* memcpy(dst + dstOff, src + srcOff, count) on one channel buffer, in samples
memcpy(dst, dstOff, src, srcOff, count) ==
    [i \in DOMAIN dst |->
        IF i >= dstOff /\ i < dstOff + count
        THEN IF (srcOff + i - dstOff) \in DOMAIN src
             THEN src[srcOff + i - dstOff]
             ELSE Junk
        ELSE dst[i]]

\* vsapi->createAudioFilter: the descriptor the node is registered with
createAudioFilter(ai) ==
    [ai EXCEPT !.numFrames =
        ToInt(CDiv(ai.numSamples + ai.format.samplesPerFrame - 1, ai.format.samplesPerFrame))]

RECURSIVE GetFrame(_, _)

\* vsapi->getFrameFilter(n, node, frameCtx)
getFrameFilter(n, node) ==
    IF n >= 0 /\ n < node.ai.numFrames
    THEN GetFrame(node, n)
    ELSE [newAudioFrame(node.ai.format, 0) EXCEPT !.ref = <<"none", 0, 0>>]

\* vsapi->requestFrameFilter(n, node, frameCtx)
requestFrameFilter(n, node) == [n |-> n, node |-> node]

----------------------------------------------------------------------------
(* AudioTrim *)

TrimStartSample(d, n) == n * d.ai.format.samplesPerFrame + d.first
TrimStartFrame(d, n) == ToInt(CDiv(TrimStartSample(d, n), d.ai.format.samplesPerFrame))
TrimLength(d, n) ==
    Min(ToInt(d.ai.numSamples - n * d.ai.format.samplesPerFrame),
        d.ai.format.samplesPerFrame)
TrimPassthrough(d, n) ==
    /\ CMod(TrimStartSample(d, n), d.ai.format.samplesPerFrame) = 0
    /\ n # d.ai.numFrames - 1
TrimNumSrc1Samples(d, n) ==
    d.ai.format.samplesPerFrame
        - CMod(TrimStartSample(d, n), d.ai.format.samplesPerFrame)

\* a Trim whose request phase never asks for the second source frame
audioTrimGetframeFirstOnly(d, n) ==
    <<requestFrameFilter(TrimStartFrame(d, n), d.node)>>

\* audioTrimGetframe, activationReason == arInitial
audioTrimGetframeInitial(d, n) ==
    IF TrimPassthrough(d, n)
    THEN <<requestFrameFilter(TrimStartFrame(d, n), d.node)>>
    ELSE IF TrimNumSrc1Samples(d, n) < TrimLength(d, n)
         THEN <<requestFrameFilter(TrimStartFrame(d, n), d.node),
                requestFrameFilter(TrimStartFrame(d, n) + 1, d.node)>>
         ELSE <<requestFrameFilter(TrimStartFrame(d, n), d.node)>>

\* audioTrimGetframe, activationReason == arAllFramesReady
audioTrimGetframeReady(d, n) ==
    LET spf == d.ai.format.samplesPerFrame
        length == TrimLength(d, n)
        startFrame == TrimStartFrame(d, n)
        numSrc1Samples == TrimNumSrc1Samples(d, n)
        src1 == getFrameFilter(startFrame, d.node)
        src2 == getFrameFilter(startFrame + 1, d.node)
        dst == newAudioFrame(d.ai.format, length)
    IN  IF TrimPassthrough(d, n)
        THEN IF length = src1.length
             THEN src1
             ELSE [dst EXCEPT !.data = [ch \in Channels(d.ai.format) |->
                        memcpy(dst.data[ch], 0, src1.data[ch], 0, length)]]
        ELSE [dst EXCEPT !.data = [ch \in Channels(d.ai.format) |->
                LET part1 == memcpy(dst.data[ch], 0, src1.data[ch],
                                    spf - numSrc1Samples, numSrc1Samples)
                IN  IF length > numSrc1Samples
                    THEN memcpy(part1, numSrc1Samples, src2.data[ch], 0,
                                length - numSrc1Samples)
                    ELSE part1]]

\* audioTrimCreate: the out map, error "" meaning success
audioTrimCreate(a) ==
    LET first == int64ToIntS(a.first)
        last == int64ToIntS(a.last)
        length == int64ToIntS(a.length)
        ai == a.clip.ai
        trimlen == IF a.lastset THEN last - first + 1
                   ELSE IF a.lengthset THEN length
                   ELSE ai.numSamples - first
        dai == [ai EXCEPT !.numSamples = trimlen]
        Fail(msg) == [error |-> msg, clip |-> NoNode]
    IN  IF a.lastset /\ a.lengthset
        THEN Fail("AudioTrim: both last sample and length specified")
        ELSE IF a.lastset /\ last < first
        THEN Fail("AudioTrim: invalid last sample specified (last is less than first)")
        ELSE IF a.lengthset /\ length < 1
        THEN Fail("AudioTrim: invalid length specified (less than 1)")
        ELSE IF first < 0
        THEN Fail("Trim: invalid first frame specified (less than 0)")
        ELSE IF \/ (a.lastset /\ last >= ai.numSamples)
                \/ (a.lengthset /\ (first + length) > ai.numSamples)
                \/ ai.numSamples <= first
        THEN Fail("AudioTrim: last sample beyond clip end")
        ELSE IF \/ (~a.firstset /\ ~a.lastset /\ ~a.lengthset)
                \/ (trimlen # 0 /\ trimlen = ai.numSamples)
        THEN [error |-> "", clip |-> a.clip]
        ELSE [error |-> "",
              clip |-> [kind |-> "trim",
                        ai |-> createAudioFilter(dai),
                        d |-> [node |-> a.clip, ai |-> dai, first |-> first]]]

----------------------------------------------------------------------------
(* AudioSplice2 and its wrapper *)

\* VSHelper.h isSameAudioFormat: sample rate, sample type, bit depth, layout
isSameAudioFormat(ai1, ai2) ==
    /\ ai1.sampleRate = ai2.sampleRate
    /\ ai1.format.sampleType = ai2.format.sampleType
    /\ ai1.format.bitsPerSample = ai2.format.bitsPerSample
    /\ ai1.format.channelLayout = ai2.format.channelLayout

\* audioSplice2PassthroughGetframe, activationReason == arInitial
audioSplice2PassthroughGetframeInitial(d, n) ==
    IF n < d.numFrames1
    THEN <<requestFrameFilter(n, d.node1)>>
    ELSE <<requestFrameFilter(n - d.numFrames1, d.node2)>>

\* audioSplice2PassthroughGetframe, activationReason == arAllFramesReady
audioSplice2PassthroughGetframeReady(d, n) ==
    IF n < d.numFrames1
    THEN getFrameFilter(n, d.node1)
    ELSE getFrameFilter(n - d.numFrames1, d.node2)

\* a general path that requests a single frame of the owning source for
\* every output frame
audioSplice2GetframeSingle(d, n) ==
    IF n < d.numFrames1
    THEN <<requestFrameFilter(n, d.node1)>>
    ELSE <<requestFrameFilter(n - d.numFrames1, d.node2)>>

\* audioSplice2Getframe, activationReason == arInitial
audioSplice2GetframeInitial(d, n) ==
    IF n < d.numFrames1 - 1
    THEN <<requestFrameFilter(n, d.node1)>>
    ELSE IF n = d.numFrames1 - 1
    THEN <<requestFrameFilter(n, d.node1), requestFrameFilter(0, d.node2)>>
    ELSE <<requestFrameFilter(n - d.numFrames1, d.node2),
           requestFrameFilter(n - d.numFrames1 + 1, d.node2)>>

SpliceSamplesOut(d, n) ==
    Min(d.ai.format.samplesPerFrame,
        ToInt(d.ai.numSamples - n * d.ai.format.samplesPerFrame))

SpliceF1Offset(d) ==
    ToInt(d.ai.format.samplesPerFrame
            - CMod(d.numSamples1 - 1, d.ai.format.samplesPerFrame) - 1)

\* audioSplice2Getframe, activationReason == arAllFramesReady
audioSplice2GetframeReady(d, n) ==
    LET seam == (n = d.numFrames1 - 1)
        f1 == IF seam THEN getFrameFilter(n, d.node1)
              ELSE getFrameFilter(n - d.numFrames1, d.node2)
        f2 == IF seam THEN getFrameFilter(0, d.node2)
              ELSE getFrameFilter(n - d.numFrames1 + 1, d.node2)
        samplesOut == SpliceSamplesOut(d, n)
        f == newAudioFrame(d.ai.format, samplesOut)
        f1offset == IF seam THEN 0 ELSE SpliceF1Offset(d)
        f1copy == Min(samplesOut, f1.length - f1offset)
        f2copy == samplesOut - f1copy
    IN  IF n < d.numFrames1 - 1
        THEN getFrameFilter(n, d.node1)
        ELSE [f EXCEPT !.data = [ch \in Channels(d.ai.format) |->
                memcpy(memcpy(f.data[ch], 0, f1.data[ch], f1offset, f1copy),
                       f1copy, f2.data[ch], 0, f2copy)]]

\* Outcomes of the signed addition numSamples += numSamples2 when the sum
\* leaves the int64_t range (undefined behaviour): "wrap" is the two's
\* complement sum, which the following comparison detects; "assumed" is a
\* build that takes the sum of two positive counts to be no smaller than
\* either and so drops the comparison.
OverflowOutcomes == {"wrap", "assumed"}

\* audioSplice2Create: the out map, error "" meaning success
audioSplice2Create(clip1, clip2, ub) ==
    LET ai1 == clip1.ai
        ai2 == clip2.ai
        sum == ai1.numSamples + ai2.numSamples
        overflows == sum > Int64Max
        numSamples == ToInt64(sum)
        dai == [ai1 EXCEPT
                  !.numSamples = numSamples,
                  !.numFrames = ToInt(CDiv(numSamples + ai1.format.samplesPerFrame - 1,
                                           ai1.format.samplesPerFrame))]
        tooLong == IF overflows /\ ub = "assumed"
                   THEN FALSE
                   ELSE numSamples < ai1.numSamples \/ numSamples < ai2.numSamples
    IN  IF ~isSameAudioFormat(ai1, ai2)
        THEN [error |-> "AudioSplice: format mismatch", clip |-> NoNode]
        ELSE IF tooLong
        THEN [error |-> "AudioSplice: the resulting clip is too long", clip |-> NoNode]
        ELSE [error |-> "",
              clip |-> [kind |-> "splice",
                        ai |-> createAudioFilter(dai),
                        passthrough |-> (CMod(ai1.numSamples, ai1.format.samplesPerFrame) = 0),
                        d |-> [ai |-> dai, node1 |-> clip1, node2 |-> clip2,
                               numSamples1 |-> ai1.numSamples,
                               numSamples2 |-> ai2.numSamples,
                               numFrames1 |-> ai1.numFrames]]]

RECURSIVE SpliceFold(_, _, _, _)
\* the loop of audioSplice2Wrapper from index i on, tmp being the clip so far
SpliceFold(tmp, clips, i, ub) ==
    IF i > Len(clips)
    THEN [error |-> "", clip |-> tmp]
    ELSE LET r == audioSplice2Create(tmp, clips[i], ub)
         IN  IF r.error # "" THEN r ELSE SpliceFold(r.clip, clips, i + 1, ub)

\* audioSplice2Wrapper: clips is the list "clips", 1-based
audioSplice2Wrapper(clips, ub) == SpliceFold(clips[1], clips, 2, ub)

----------------------------------------------------------------------------
(* Node references *)

\* A VSNodeRef *: every vsapi->propGetNode and vsapi->cloneNodeRef call
\* returns a reference object of its own (ref numbers the calls), released by
\* its own vsapi->freeNode; clip is the node it refers to.
NodeRef(ref, clip) == [ref |-> ref, clip |-> clip]

\* the set keys sorted, as a sequence (iteration of a std::set)
RECURSIVE SortedSeq(_)
SortedSeq(S) ==
    IF S = {} THEN <<>>
    ELSE LET m == CHOOSE x \in S : \A y \in S : x <= y
         IN  <<m>> \o SortedSeq(S \ {m})

\* d->reqNodes: the distinct pointers among sourceNodes[].node
ReqNodes(sourceNodes) ==
    LET refs == { sourceNodes[r].node.ref : r \in DOMAIN sourceNodes }
        order == SortedSeq(refs)
    IN  [k \in DOMAIN order |->
            sourceNodes[CHOOSE r \in DOMAIN sourceNodes :
                            sourceNodes[r].node.ref = order[k]].node]

\* vsapi->queryAudioFormat: no format for an empty channel layout, for a
\* floating point depth other than 32 bits or an integer depth outside 16..32
queryAudioFormat(sampleType, bits, layout) ==
    IF layout <= 0 THEN NoNode
    ELSE IF sampleType = "stFloat" /\ bits # Bits32 THEN NoNode
    ELSE IF sampleType = "stInteger" /\ (bits < Bits16 \/ bits > Bits32) THEN NoNode
    ELSE AudioFormat(sampleType, bits, IF bits = Bits16 THEN 2 ELSE 4, layout)

----------------------------------------------------------------------------
(* Floating point and narrowing *)

RECURSIVE BitLen(_)
\* number of binary digits of x >= 0
BitLen(x) == IF x = 0 THEN 0 ELSE 1 + BitLen(x \div 2)

Abs(x) == IF x < 0 THEN 0 - x ELSE x

\* the integer x converted to float: round to nearest, ties to even
ToFloat(x) ==
    LET a == Abs(x)
        q == Pow2(BitLen(a) - FloatBits)
        down == a - (a % q)
        r == a % q
        up == down + q
        near == IF 2 * r < q THEN down
                ELSE IF 2 * r > q THEN up
                ELSE IF (down \div q) % 2 = 0 THEN down ELSE up
    IN  IF BitLen(a) <= FloatBits THEN x
        ELSE IF x < 0 THEN 0 - near ELSE near

\* Outcomes of static_cast<intN_t>(double) for a value outside the type
\* (undefined behaviour): "wrap" keeps the low bits, "sat" stops at the limit.
CastOutcomes == {"wrap", "sat"}

\* static_cast to a signed integer of the given width (in bits)
CastToInt(x, bits, ub) ==
    LET hi == Pow2(bits - 1) - 1
        lo == 0 - Pow2(bits - 1)
    IN  IF x >= lo /\ x <= hi THEN x
        ELSE IF ub = "wrap" THEN ((x - lo) % Pow2(bits)) + lo
        ELSE IF x > hi THEN hi ELSE lo

----------------------------------------------------------------------------
(* AudioMix *)

RECURSIVE Sum(_, _)
\* f[1] + ... + f[k]
Sum(f, k) == IF k = 0 THEN 0 ELSE Sum(f, k - 1) + f[k]

\* the element type T of audioMixGetFrame<T> chosen by audioMixCreate
MixSampleType(format) ==
    IF format.sampleType = "stFloat" THEN "float"
    ELSE IF format.bytesPerSample = 2 THEN "int16_t"
    ELSE "int32_t"

\* audioMixGetFrame, the narrowing of the accumulator tmp into T
MixNarrow(T, tmp, bitsPerSample, ub) ==
    IF T = "int16_t" THEN CastToInt(tmp, Bits16, ub)
    ELSE IF T = "int32_t"
    THEN CastToInt(Min(ToFloat(tmp), ToFloat(Pow2(bitsPerSample - 1) - 1)), Bits32, ub)
    ELSE ToFloat(tmp)

\* audioMixGetFrame, activationReason == arInitial
audioMixGetFrameInitial(d, n) ==
    [k \in DOMAIN d.reqNodes |-> requestFrameFilter(n, d.reqNodes[k])]

\* audioMixGetFrame, activationReason == arAllFramesReady
audioMixGetFrameReady(d, n, ub) ==
    LET T == MixSampleType(d.ai.format)
        srcFrames == [r \in DOMAIN d.sourceNodes |->
                        getFrameFilter(n, d.sourceNodes[r].node.clip)]
        srcPtrs == [r \in DOMAIN d.sourceNodes |->
                        srcFrames[r].data[d.sourceNodes[r].idx]]
        srcLength == srcFrames[1].length
        dst == newAudioFrame(d.ai.format, srcLength)
        tmp(dstIdx, i) ==
            Sum([r \in DOMAIN d.sourceNodes |->
                    srcPtrs[r][i] * d.sourceNodes[r].weights[dstIdx + 1]],
                Len(d.sourceNodes))
    IN  [dst EXCEPT !.data =
            [dstIdx \in Channels(d.ai.format) |->
                [i \in Positions(d.ai.format) |->
                    IF i < srcLength
                    THEN MixNarrow(T, tmp(dstIdx, i), d.ai.format.bitsPerSample, ub)
                    ELSE dst.data[dstIdx][i]]]]

RECURSIVE MixRows(_, _)
\* the (clip index, channel counter j) pairs pushed by the first loop of
\* audioMixCreate, for the clips from index i on
MixRows(clips, i) ==
    IF i > Len(clips) THEN <<>>
    ELSE [j \in 1 .. clips[i].ai.format.numChannels |-> <<i, j - 1>>]
            \o MixRows(clips, i + 1)

\* index of the first element of the sequence satisfying the test, or 0
FirstBad(seq, Bad(_)) ==
    IF \E r \in DOMAIN seq : Bad(seq[r])
    THEN CHOOSE r \in DOMAIN seq : Bad(seq[r]) /\ \A q \in 1 .. (r - 1) : ~Bad(seq[q])
    ELSE 0

\* audioMixCreate: the out map, error "" meaning success
audioMixCreate(a) ==
    LET numSrcNodes == Len(a.clips)
        numMatrixWeights == Len(a.matrix)
        numOutChannels == PopCount(a.channels_out)
        rows == MixRows(a.clips, 1)
        numSrcChannels == Len(rows)
        \* push_back({ node, j }): node, numFrames = j, idx = 0, weights = {}
        pushed == [r \in DOMAIN rows |->
                     [node |-> NodeRef(r, a.clips[rows[r][1]]),
                      numFrames |-> rows[r][2], idx |-> 0, weights |-> <<>>]]
        ai0 == pushed[1].node.clip.ai
        NotPresent(e) == ~HasBit(e.node.clip.ai.format.channelLayout, e.idx)
        Differs(e) ==
            \/ e.node.clip.ai.numSamples # ai0.numSamples
            \/ e.node.clip.ai.sampleRate # ai0.sampleRate
            \/ e.node.clip.ai.format.bitsPerSample # ai0.format.bitsPerSample
            \/ e.node.clip.ai.format.sampleType # ai0.format.sampleType
        Bad(e) == NotPresent(e) \/ Differs(e)
        bad == FirstBad(pushed, Bad)
        loopErr == IF bad = 0 THEN ""
                   ELSE IF NotPresent(pushed[bad])
                   THEN "AudioMix: specified channel is not present in input"
                   ELSE "AudioMix: all inputs must have the same length, samplerate, bits per sample and sample type"
        PhysIdx(e) ==
            Cardinality({ j \in 0 .. (e.idx - 1) :
                            HasBit(e.node.clip.ai.format.channelLayout, j) })
        sourceNodes ==
            [r \in DOMAIN pushed |->
                [node |-> pushed[r].node,
                 numFrames |-> pushed[r].node.clip.ai.numFrames,
                 idx |-> PhysIdx(pushed[r]),
                 weights |-> [j \in 1 .. numOutChannels |->
                                ToFloat(a.matrix[(j - 1) * numSrcChannels + r])]]]
        format == queryAudioFormat(ai0.format.sampleType, ai0.format.bitsPerSample,
                                   a.channels_out)
        err == IF format = NoNode
               THEN "AudioMix: invalid output channnel configuration"
               ELSE loopErr
        dai == [ai0 EXCEPT !.format = format]
        Fail(msg) == [error |-> msg, clip |-> NoNode]
    IN  IF numSrcNodes > numSrcChannels
        THEN Fail("AudioMix: cannot have more input nodes than selected input channels")
        ELSE IF numOutChannels * numSrcChannels # numMatrixWeights
        THEN Fail("AudioMix: the number of matrix weights must equal (input channels * output channels)")
        ELSE IF err # ""
        THEN Fail(err)
        ELSE [error |-> "",
              clip |-> [kind |-> "mix",
                        ai |-> createAudioFilter(dai),
                        d |-> [reqNodes |-> ReqNodes(sourceNodes),
                               sourceNodes |-> sourceNodes,
                               ai |-> dai]]]

----------------------------------------------------------------------------
(* ShuffleChannels *)

\* memset(dst + dstOff, 0, count) on one channel buffer, in samples
memset0(dst, dstOff, count) ==
    [i \in DOMAIN dst |-> IF i >= dstOff /\ i < dstOff + count THEN 0 ELSE dst[i]]

\* shuffleChannelsGetFrame, activationReason == arInitial
shuffleChannelsGetFrameInitial(d, n) ==
    [k \in DOMAIN d.reqNodes |-> requestFrameFilter(n, d.reqNodes[k])]

ShuffleDstLength(d, n) ==
    Min(ToInt(d.ai.numSamples - n * d.ai.format.samplesPerFrame),
        d.ai.format.samplesPerFrame)

\* shuffleChannelsGetFrame, activationReason == arAllFramesReady
shuffleChannelsGetFrameReady(d, n) ==
    LET dstLength == ShuffleDstLength(d, n)
        dst == newAudioFrame(d.ai.format, dstLength)
        Chan(idx) ==
            LET e == d.sourceNodes[idx + 1]
                src == getFrameFilter(n, e.node.clip)
                srcLength == IF n < e.numFrames THEN src.length ELSE 0
                copyLength == Min(dstLength, srcLength)
                zeroLength == dstLength - copyLength
                copied == IF copyLength > 0
                          THEN memcpy(dst.data[idx], 0, src.data[e.idx], 0, copyLength)
                          ELSE dst.data[idx]
            IN  IF zeroLength > 0 THEN memset0(copied, copyLength, zeroLength)
                ELSE copied
    IN  [dst EXCEPT !.data = [idx \in 0 .. (Len(d.sourceNodes) - 1) |-> Chan(idx)]]

RECURSIVE MaxSamplesOf(_, _)
\* the running std::max of the sources' sample counts over sourceNodes[1..k]
MaxSamplesOf(nodes, k) ==
    IF k = 1 THEN nodes[1].node.clip.ai.numSamples
    ELSE Max(MaxSamplesOf(nodes, k - 1), nodes[k].node.clip.ai.numSamples)

\* shuffleChannelsCreate: the out map, error "" meaning success
shuffleChannelsCreate(a) ==
    LET numSrcNodes == Len(a.clips)
        numSrcChannels == Len(a.channels_in)
        \* push_back({ node, channel }): node, numFrames = channel, idx = 0
        pushed == [i \in 1 .. numSrcChannels |->
                     [node |-> NodeRef(i, a.clips[Min(numSrcNodes, i)]),
                      numFrames |-> int64ToIntS(a.channels_in[i]), idx |-> 0]]
        ai0 == pushed[1].node.clip.ai
        NotPresent(e) == ~HasBit(e.node.clip.ai.format.channelLayout, e.idx)
        Differs(e) ==
            \/ e.node.clip.ai.sampleRate # ai0.sampleRate
            \/ e.node.clip.ai.format.bitsPerSample # ai0.format.bitsPerSample
            \/ e.node.clip.ai.format.sampleType # ai0.format.sampleType
        Bad(e) == NotPresent(e) \/ Differs(e)
        bad == FirstBad(pushed, Bad)
        loopErr == IF bad = 0 THEN ""
                   ELSE IF NotPresent(pushed[bad])
                   THEN "ShuffleChannels: specified channel is not present in input"
                   ELSE "ShuffleChannels: all inputs must have the same samplerate, bits per sample and sample type"
        PhysIdx(e) ==
            Cardinality({ j \in 0 .. (e.idx - 1) :
                            HasBit(e.node.clip.ai.format.channelLayout, j) })
        sourceNodes ==
            [r \in DOMAIN pushed |->
                [node |-> pushed[r].node,
                 numFrames |-> pushed[r].node.clip.ai.numFrames,
                 idx |-> PhysIdx(pushed[r])]]
        format == queryAudioFormat(ai0.format.sampleType, ai0.format.bitsPerSample,
                                   a.channels_out)
        err == IF format = NoNode
               THEN "ShuffleChannels: invalid output channnel configuration"
               ELSE loopErr
        dai == [ai0 EXCEPT !.format = format,
                           !.numSamples = MaxSamplesOf(pushed, numSrcChannels)]
        Fail(msg) == [error |-> msg, clip |-> NoNode]
    IN  IF numSrcNodes > numSrcChannels
        THEN Fail("ShuffleChannels: cannot have more input nodes than selected input channels")
        ELSE IF PopCount(a.channels_out) # numSrcChannels
        THEN Fail("ShuffleChannels: number of input channels doesn't match number of outputs")
        ELSE IF err # ""
        THEN Fail(err)
        ELSE [error |-> "",
              clip |-> [kind |-> "shuffle",
                        ai |-> createAudioFilter(dai),
                        d |-> [reqNodes |-> ReqNodes(sourceNodes),
                               sourceNodes |-> sourceNodes,
                               ai |-> dai]]]

----------------------------------------------------------------------------
(* The vsapi calls of the arAllFramesReady phase *)

\* the arguments of one vsapi->getFrameFilter(n, node, frameCtx) call
getFrameFilterCall(n, node) == [n |-> n, node |-> node]

\* one memcpy (from = k: out of the k-th fetched frame) or memset (from = 0)
\* per channel, counted in samples; to = 0 is the frame allocated by this
\* call, the only frame getWritePtr is called on
Copy(from, srcOff, dstOff, count) ==
    [from |-> from, to |-> 0, srcOff |-> srcOff, dstOff |-> dstOff, count |-> count]

FrameLog(fetched, allocated, copies, freed, returned) ==
    [fetched |-> fetched, requested |-> <<>>, allocated |-> allocated,
     copies |-> copies, freed |-> freed, returned |-> returned]

\* a Trim that forgets vsapi->freeFrame(src2) after copying the head of the
\* second source frame
audioTrimGetframeLeak(d, n) ==
    LET spf == d.ai.format.samplesPerFrame
        length == TrimLength(d, n)
        startFrame == TrimStartFrame(d, n)
        numSrc1Samples == TrimNumSrc1Samples(d, n)
        src == getFrameFilter(startFrame, d.node)
        first == getFrameFilterCall(startFrame, d.node)
        second == getFrameFilterCall(startFrame + 1, d.node)
        tail == Copy(1, spf - numSrc1Samples, 0, numSrc1Samples)
    IN  IF TrimPassthrough(d, n)
        THEN IF length = src.length
             THEN FrameLog(<<first>>, <<>>, <<>>, <<>>, 1)
             ELSE FrameLog(<<first>>, <<length>>, <<Copy(1, 0, 0, length)>>, <<1>>, 0)
        ELSE IF length > numSrc1Samples
             THEN FrameLog(<<first, second>>, <<length>>,
                           <<tail, Copy(2, 0, numSrc1Samples, length - numSrc1Samples)>>,
                           <<1>>, 0)
             ELSE FrameLog(<<first>>, <<length>>, <<tail>>, <<1>>, 0)

\* audioTrimGetframe, activationReason == arAllFramesReady: its vsapi calls
audioTrimGetframeLog(d, n) ==
    LET spf == d.ai.format.samplesPerFrame
        length == TrimLength(d, n)
        startFrame == TrimStartFrame(d, n)
        numSrc1Samples == TrimNumSrc1Samples(d, n)
        src == getFrameFilter(startFrame, d.node)
        first == getFrameFilterCall(startFrame, d.node)
        second == getFrameFilterCall(startFrame + 1, d.node)
        tail == Copy(1, spf - numSrc1Samples, 0, numSrc1Samples)
    IN  IF TrimPassthrough(d, n)
        THEN IF length = src.length
             THEN FrameLog(<<first>>, <<>>, <<>>, <<>>, 1)
             ELSE FrameLog(<<first>>, <<length>>, <<Copy(1, 0, 0, length)>>, <<1>>, 0)
        ELSE IF length > numSrc1Samples
             THEN FrameLog(<<first, second>>, <<length>>,
                           <<tail, Copy(2, 0, numSrc1Samples, length - numSrc1Samples)>>,
                           <<1, 2>>, 0)
             ELSE FrameLog(<<first>>, <<length>>, <<tail>>, <<1>>, 0)

\* audioSplice2PassthroughGetframe, arAllFramesReady: its vsapi calls
audioSplice2PassthroughGetframeLog(d, n) ==
    IF n < d.numFrames1
    THEN FrameLog(<<getFrameFilterCall(n, d.node1)>>, <<>>, <<>>, <<>>, 1)
    ELSE FrameLog(<<getFrameFilterCall(n - d.numFrames1, d.node2)>>, <<>>, <<>>, <<>>, 1)

\* audioSplice2Getframe: the counts f1copy and f2copy, in samples
SpliceCopyCounts(d, n) ==
    LET seam == (n = d.numFrames1 - 1)
        f1 == IF seam THEN getFrameFilter(n, d.node1)
              ELSE getFrameFilter(n - d.numFrames1, d.node2)
        samplesOut == SpliceSamplesOut(d, n)
        f1offset == IF seam THEN 0 ELSE SpliceF1Offset(d)
        f1copy == Min(samplesOut, f1.length - f1offset)
    IN  [f1offset |-> f1offset, f1copy |-> f1copy, f2copy |-> samplesOut - f1copy]

\* audioSplice2Getframe, arAllFramesReady: its vsapi calls
audioSplice2GetframeLog(d, n) ==
    LET seam == (n = d.numFrames1 - 1)
        c == SpliceCopyCounts(d, n)
        fetched == IF seam
                   THEN <<getFrameFilterCall(n, d.node1), getFrameFilterCall(0, d.node2)>>
                   ELSE <<getFrameFilterCall(n - d.numFrames1, d.node2),
                          getFrameFilterCall(n - d.numFrames1 + 1, d.node2)>>
    IN  IF n < d.numFrames1 - 1
        THEN FrameLog(<<getFrameFilterCall(n, d.node1)>>, <<>>, <<>>, <<>>, 1)
        ELSE FrameLog(fetched, <<SpliceSamplesOut(d, n)>>,
                      <<Copy(1, c.f1offset, 0, c.f1copy), Copy(2, 0, c.f1copy, c.f2copy)>>,
                      <<1, 2>>, 0)

\* audioMixGetFrame, arAllFramesReady: its vsapi calls; every row's frame is
\* read from position 0 to srcLength - 1
audioMixGetFrameLog(d, n) ==
    LET srcLength == getFrameFilter(n, d.sourceNodes[1].node.clip).length
    IN  FrameLog([r \in DOMAIN d.sourceNodes |->
                     getFrameFilterCall(n, d.sourceNodes[r].node)],
                 <<srcLength>>,
                 [r \in DOMAIN d.sourceNodes |-> Copy(r, 0, 0, srcLength)],
                 [r \in DOMAIN d.sourceNodes |-> r],
                 0)

RECURSIVE ShuffleCopies(_, _, _)
\* shuffleChannelsGetFrame: the memcpy and memset calls of the loop
\* iterations idx + 1 .. Len(sourceNodes)
ShuffleCopies(d, n, idx) ==
    IF idx >= Len(d.sourceNodes) THEN <<>>
    ELSE LET e == d.sourceNodes[idx + 1]
             dstLength == ShuffleDstLength(d, n)
             srcLength == IF n < e.numFrames
                          THEN getFrameFilter(n, e.node.clip).length ELSE 0
             copyLength == Min(dstLength, srcLength)
             zeroLength == dstLength - copyLength
         IN  (IF copyLength > 0 THEN <<Copy(idx + 1, 0, 0, copyLength)>> ELSE <<>>)
               \o (IF zeroLength > 0 THEN <<Copy(0, 0, copyLength, zeroLength)>> ELSE <<>>)
               \o ShuffleCopies(d, n, idx + 1)

\* shuffleChannelsGetFrame, arAllFramesReady: its vsapi calls
shuffleChannelsGetFrameLog(d, n) ==
    FrameLog([r \in DOMAIN d.sourceNodes |->
                 getFrameFilterCall(n, d.sourceNodes[r].node)],
             IF Len(d.sourceNodes) > 0 THEN <<ShuffleDstLength(d, n)>> ELSE <<>>,
             ShuffleCopies(d, n, 0),
             [r \in DOMAIN d.sourceNodes |-> r],
             IF Len(d.sourceNodes) > 0 THEN 0 ELSE 0 - 1)

----------------------------------------------------------------------------
(* The node references of the constructors *)

RECURSIVE LRelease(_, _)
RECURSIVE LDrop(_, _)
RECURSIVE LReleaseAll(_, _, _)

\* one reference to the node `target` goes away; a created node without
\* references is destroyed and its free callback releases what it kept
LDrop(L, target) ==
    IF target <= 0 THEN L
    ELSE LET node == L.nodes[target]
             L1 == [L EXCEPT !.nodes[target].refs = @ - 1]
         IN  IF node.refs - 1 > 0 THEN L1
             ELSE LReleaseAll([L1 EXCEPT !.nodes[target].alive = FALSE], node.kept, 1)

\* vsapi->freeNode of the references hs[i], hs[i+1], ...
LReleaseAll(L, hs, i) ==
    IF i > Len(hs) THEN L ELSE LReleaseAll(LRelease(L, hs[i]), hs, i + 1)

\* vsapi->freeNode(h)
LRelease(L, h) == LDrop([L EXCEPT !.released = Append(@, h)], L.acquired[h])

\* the reference count of created node `target` grows by one
LRetain(L, target) ==
    IF target <= 0 THEN L ELSE [L EXCEPT !.nodes[target].refs = @ + 1]

\* vsapi->propGetNode / vsapi->cloneNodeRef: a new reference to `target`
LAcquire(L, target) == LRetain([L EXCEPT !.acquired = Append(@, target)], target)

RECURSIVE LAcquireN(_, _)
\* k new references to upstream nodes
LAcquireN(L, k) == IF k = 0 THEN L ELSE LAcquire(LAcquireN(L, k - 1), 0)

\* the reference returned by the latest propGetNode / cloneNodeRef call
LastRef(L) == Len(L.acquired)

\* vsapi->propSetNode(out, "clip", node, paReplace)
LSetMap(L, target) == LDrop([LRetain(L, target) EXCEPT !.map = target], L.map)

\* vsapi->clearMap(out), and vsapi->setError(out, ...), which empties the map
LClearMap(L) == LDrop([L EXCEPT !.map = 0 - 1], L.map)

\* vsapi->createAudioFilter: a node whose instance data keeps the references
\* `kept`, returned under the key "clip" of the out map
LRegister(L, kept) ==
    LDrop([L EXCEPT !.nodes = Append(@, [kept |-> kept, refs |-> 1, alive |-> TRUE]),
                    !.map = Len(L.nodes) + 1],
          L.map)

\* the references 1 .. k
FirstRefs(k) == [i \in 1 .. k |-> i]

\* audioTrimCreate: propGetNode on line 129, freeNode on lines 134 and 149
audioTrimCreateRefs(a) ==
    LET r == audioTrimCreate(a)
        got == LAcquire(NoRefs, 0)
    IN  IF r.error \in {"AudioTrim: both last sample and length specified",
                        "AudioTrim: invalid last sample specified (last is less than first)",
                        "AudioTrim: invalid length specified (less than 1)",
                        "Trim: invalid first frame specified (less than 0)"}
        THEN LClearMap(NoRefs)
        ELSE IF r.error # ""
        THEN LClearMap(LRelease(got, 1))
        ELSE IF r.clip = a.clip
        THEN LRelease(LSetMap(got, 0), 1)
        ELSE LRegister(got, <<1>>)

\* an audioSplice2Create that frees only node1 on its error paths
audioSplice2CreateLeak(L, clip1, clip2, r) ==
    LET L1 == LAcquire(L, L.acquired[clip1])
        node1 == LastRef(L1)
        L2 == LAcquire(L1, L.acquired[clip2])
        node2 == LastRef(L2)
    IN  IF r.error # ""
        THEN LClearMap(LRelease(L2, node1))
        ELSE LRegister(L2, <<node1, node2>>)

\* audioSplice2Create(clip1, clip2): cloneNodeRef on lines 268-269, freeNode
\* on lines 279-280 and 289-290; r is its result
audioSplice2CreateRefs(L, clip1, clip2, r) ==
    LET L1 == LAcquire(L, L.acquired[clip1])
        node1 == LastRef(L1)
        L2 == LAcquire(L1, L.acquired[clip2])
        node2 == LastRef(L2)
    IN  IF r.error # ""
        THEN LClearMap(LRelease(LRelease(L2, node1), node2))
        ELSE LRegister(L2, <<node1, node2>>)

RECURSIVE SpliceFoldRefs(_, _, _, _, _, _)
\* the loop of audioSplice2Wrapper from index i on; tmp is the reference
\* held in `tmp` and tmpClip the node it refers to
SpliceFoldRefs(L, tmp, tmpClip, clips, i, ub) ==
    IF i > Len(clips)
    THEN LRelease(LSetMap(L, L.acquired[tmp]), tmp)
    ELSE LET L1 == LAcquire(L, 0)
             cref == LastRef(L1)
             r == audioSplice2Create(tmpClip, clips[i], ub)
             L2 == audioSplice2CreateRefs(L1, tmp, cref, r)
             L3 == LRelease(LRelease(L2, tmp), cref)
             L4 == LAcquire(L3, L3.map)
         IN  IF r.error # "" THEN L3
             ELSE SpliceFoldRefs(LClearMap(L4), LastRef(L4), r.clip, clips, i + 1, ub)

\* audioSplice2Wrapper: the single-clip branch (lines 304-308) falls through
\* to the propGetNode of line 310
audioSplice2WrapperRefs(clips, ub) ==
    LET single == LAcquire(NoRefs, 0)
        L0 == IF Len(clips) = 1 THEN LRelease(LSetMap(single, 0), 1) ELSE NoRefs
        L1 == LAcquire(L0, 0)
    IN  SpliceFoldRefs(L1, LastRef(L1), clips[1], clips, 2, ub)

\* audioMixCreate: one propGetNode or cloneNodeRef per pushed row (lines
\* 419-422), freeNode of every row on the error paths
audioMixCreateRefs(a) ==
    LET r == audioMixCreate(a)
        rows == Len(MixRows(a.clips, 1))
        got == LAcquireN(NoRefs, rows)
    IN  IF r.error # ""
        THEN LReleaseAll(LClearMap(got), FirstRefs(rows), 1)
        ELSE LRegister(got, FirstRefs(rows))

\* shuffleChannelsCreate: the two first checks return before any
\* propGetNode; afterwards one reference per entry of channels_in
shuffleChannelsCreateRefs(a) ==
    LET r == shuffleChannelsCreate(a)
        rows == Len(a.channels_in)
        got == LAcquireN(NoRefs, rows)
    IN  IF r.error \in {"ShuffleChannels: cannot have more input nodes than selected input channels",
                        "ShuffleChannels: number of input channels doesn't match number of outputs"}
        THEN LClearMap(NoRefs)
        ELSE IF r.error # ""
        THEN LReleaseAll(LClearMap(got), FirstRefs(rows), 1)
        ELSE LRegister(got, FirstRefs(rows))

----------------------------------------------------------------------------
(* Frames of a node of the graph *)

GetFrame(node, n) ==
    CASE node.kind = "src" -> SrcFrame(node, n)
      [] node.kind = "trim" -> audioTrimGetframeReady(node.d, n)
      [] node.kind = "splice" ->
            IF node.passthrough
            THEN audioSplice2PassthroughGetframeReady(node.d, n)
            ELSE audioSplice2GetframeReady(node.d, n)
      [] OTHER -> NoFrame

----------------------------------------------------------------------------
(* Scenario: one AudioTrim over one source stream *)

Stereo16 == AudioFormat("stInteger", 16, 2, 3)

\* values of an optional integer argument: absent (propGetInt returns 0), or given
TrimArgValues == (0 - 1) .. (MaxSamples + 1)

TrimInputs ==
    { [clip |-> SrcClip(1, Stereo16, 48000, ns, 1000),
       firstset |-> fs, first |-> IF fs THEN f ELSE 0,
       lastset |-> ls, last |-> IF ls THEN l ELSE 0,
       lengthset |-> ns2, length |-> IF ns2 THEN l ELSE 0] :
         ns \in 1 .. MaxSamples, fs \in BOOLEAN, ls \in BOOLEAN, ns2 \in BOOLEAN,
         f \in TrimArgValues, l \in TrimArgValues }

InitTrim ==
    /\ pc = "start"
    /\ AuxIdle
    /\ in \in TrimInputs
    /\ out = [error |-> "", clip |-> NoNode]
    /\ cur = 0
    /\ reqs = <<>>
    /\ ret = NoFrame

TrimCreate ==
    /\ pc = "start"
    /\ out' = audioTrimCreate(in)
    /\ nrefs' = audioTrimCreateRefs(in)
    /\ pc' = "created"
    /\ UNCHANGED <<aux, log, in, cur, reqs, ret>>

TrimRequest ==
    /\ pc \in {"created", "done"}
    /\ out.clip.kind = "trim"
    /\ \E n \in 0 .. (out.clip.ai.numFrames - 1) :
          /\ cur' = n
          /\ reqs' = audioTrimGetframeInitial(out.clip.d, n)
    /\ ret' = NoFrame
    /\ pc' = "requested"
    /\ log' = NoLog
    /\ UNCHANGED <<aux, nrefs, in, out>>

TrimReady ==
    /\ pc = "requested"
    /\ out.clip.kind = "trim"
    /\ ret' = audioTrimGetframeReady(out.clip.d, cur)
    /\ log' = audioTrimGetframeLog(out.clip.d, cur)
    /\ pc' = "done"
    /\ UNCHANGED <<aux, nrefs, in, out, cur, reqs>>

NextTrim == TrimCreate \/ TrimRequest \/ TrimReady

SpecTrim == InitTrim /\ [][NextTrim]_vars

----------------------------------------------------------------------------
(* Scenario: AudioSplice over a list of one to three source streams *)

\* sample counts of the spliced sources: short streams, the longest stream
\* with an `int` frame count, and a stream near the int64_t limit
SpliceLens == (1 .. MaxSamples) \cup {IntMax * SamplesPerFrame, Int64Max - 2}

\* the k-th clip of the list; rate 44100 only to provoke a format mismatch
SpliceClips(k) ==
    { SrcClip(k, Stereo16, 48000, ns, 1000 * k) : ns \in SpliceLens }
        \cup { SrcClip(k, Stereo16, 44100, 2, 1000 * k) }

SpliceInputs ==
    { [clips |-> <<a>>] : a \in SpliceClips(1) }
        \cup { [clips |-> <<a, b>>] : a \in SpliceClips(1), b \in SpliceClips(2) }
        \cup { [clips |-> <<a, b, c>>] :
                 a \in SpliceClips(1), b \in SpliceClips(2), c \in SpliceClips(3) }

InitSplice ==
    /\ pc = "start"
    /\ AuxIdle
    /\ in \in SpliceInputs
    /\ out = [error |-> "", clip |-> NoNode]
    /\ cur = 0
    /\ reqs = <<>>
    /\ ret = NoFrame

SpliceCreate ==
    /\ pc = "start"
    /\ \E ub \in OverflowOutcomes :
          /\ out' = audioSplice2Wrapper(in.clips, ub)
          /\ nrefs' = audioSplice2WrapperRefs(in.clips, ub)
    /\ pc' = "created"
    /\ UNCHANGED <<aux, log, in, cur, reqs, ret>>

SpliceRequest ==
    /\ pc \in {"created", "done"}
    /\ out.clip.kind = "splice"
    /\ \E n \in 0 .. (out.clip.ai.numFrames - 1) :
          /\ cur' = n
          /\ reqs' = IF out.clip.passthrough
                     THEN audioSplice2PassthroughGetframeInitial(out.clip.d, n)
                     ELSE audioSplice2GetframeInitial(out.clip.d, n)
    /\ ret' = NoFrame
    /\ pc' = "requested"
    /\ log' = NoLog
    /\ UNCHANGED <<aux, nrefs, in, out>>

SpliceReady ==
    /\ pc = "requested"
    /\ out.clip.kind = "splice"
    /\ ret' = GetFrame(out.clip, cur)
    /\ log' = IF out.clip.passthrough
              THEN audioSplice2PassthroughGetframeLog(out.clip.d, cur)
              ELSE audioSplice2GetframeLog(out.clip.d, cur)
    /\ pc' = "done"
    /\ UNCHANGED <<aux, nrefs, in, out, cur, reqs>>

NextSplice == SpliceCreate \/ SpliceRequest \/ SpliceReady

SpecSplice == InitSplice /\ [][NextSplice]_vars

----------------------------------------------------------------------------
(* Scenario: AudioMix or ShuffleChannels over one or two source streams *)

MixFormat(kind, layout) ==
    CASE kind = "int16" -> AudioFormat("stInteger", Bits16, 2, layout)
      [] kind = "int24" -> AudioFormat("stInteger", Bits24, 4, layout)
      [] kind = "int32" -> AudioFormat("stInteger", Bits32, 4, layout)
      [] OTHER -> AudioFormat("stFloat", Bits32, 4, layout)

MixKinds == {"int16", "int24", "int32", "float"}

\* first samples of the first source, inside the range of its sample type
MixSeeds(kind) ==
    CASE kind = "int16" -> {0 - Pow2(Bits16 - 1) + 2, 1}
      [] kind = "int24" -> {3, Pow2(Bits24 - 1) - 6}
      [] kind = "int32" -> {Pow2(FloatBits - 1) - 2, Pow2(FloatBits) - 2, Pow2(Bits32 - 1) - 6}
      [] OTHER -> {Pow2(FloatBits - 2) + 2, Pow2(FloatBits - 1) + 4}

\* the lists of source clips: one clip, or two clips of the same sample type
\* (the second also with a different length)
MixClipLists ==
    UNION { UNION { UNION {
        { <<SrcClipWith(1, MixFormat(kind, la), 48000, MixSamples, seed, 2, slope)>> }
          \cup
        { <<SrcClipWith(1, MixFormat(kind, la), 48000, MixSamples, seed, 2, slope),
            SrcClipWith(2, MixFormat(kind, lb), 48000, nb, 5, 2, slope)>> :
              lb \in {1, 3}, nb \in {MixSamples, MixSamples - 2} }
        : seed \in MixSeeds(kind) } : kind \in MixKinds } : la \in {1, 2, 3}, slope \in {0, 1} }

RECURSIVE NumChannelsOf(_, _)
NumChannelsOf(clips, k) ==
    IF k = 0 THEN 0 ELSE NumChannelsOf(clips, k - 1) + clips[k].ai.format.numChannels

\* the weight matrices offered for a list of clips and a destination layout:
\* every 0/1 matrix of the required size, and one of a wrong size
MixMatrices(clips, channels_out) ==
    LET need == PopCount(channels_out) * NumChannelsOf(clips, Len(clips))
    IN  [1 .. need -> {0, 1}] \cup {[k \in 1 .. (need + 1) |-> 1]}

MixInputs ==
    UNION { UNION {
        { [filter |-> "AudioMix", clips |-> cl, matrix |-> m, channels_out |-> co] :
            m \in MixMatrices(cl, co) }
        : co \in {0, 1, 3} } : cl \in MixClipLists }

\* lists of one or two sources of different lengths and layouts, one length
\* being above the range of `int`
ShuffleClipLists ==
    { <<SrcClip(1, MixFormat("int16", la), 48000, na, 1000)>> :
        la \in {1, 2, 3, 6}, na \in {MixSamples, MixSamples + 3, MaxSamples} }
      \cup
    { <<SrcClip(1, MixFormat("int16", la), 48000, MixSamples + 3, 1000),
        SrcClip(2, MixFormat(kb, lb), 48000, MixSamples, 2000)>> :
        la \in {1, 2, 3, 6}, lb \in {1, 3}, kb \in {"int16", "int24"} }

ShuffleChannelLists ==
    UNION { [1 .. k -> 0 .. 2] : k \in 1 .. 3 }

ShuffleInputs ==
    { [filter |-> "ShuffleChannels", clips |-> cl, channels_in |-> ci,
       channels_out |-> co] :
        cl \in ShuffleClipLists, ci \in ShuffleChannelLists, co \in {0, 1, 3, 5, 7} }

InitChannels ==
    /\ pc = "start"
    /\ AuxIdle
    /\ in \in MixInputs \cup ShuffleInputs
    /\ out = [error |-> "", clip |-> NoNode]
    /\ cur = 0
    /\ reqs = <<>>
    /\ ret = NoFrame

MixCreate ==
    /\ pc = "start"
    /\ in.filter = "AudioMix"
    /\ out' = audioMixCreate(in)
    /\ nrefs' = audioMixCreateRefs(in)
    /\ pc' = "created"
    /\ UNCHANGED <<aux, log, in, cur, reqs, ret>>

MixRequest ==
    /\ pc \in {"created", "done"}
    /\ out.clip.kind = "mix"
    /\ \E n \in 0 .. (out.clip.ai.numFrames - 1) :
          /\ cur' = n
          /\ reqs' = audioMixGetFrameInitial(out.clip.d, n)
    /\ ret' = NoFrame
    /\ pc' = "requested"
    /\ log' = NoLog
    /\ UNCHANGED <<aux, nrefs, in, out>>

MixReady ==
    /\ pc = "requested"
    /\ out.clip.kind = "mix"
    /\ \E ub \in CastOutcomes : ret' = audioMixGetFrameReady(out.clip.d, cur, ub)
    /\ log' = audioMixGetFrameLog(out.clip.d, cur)
    /\ pc' = "done"
    /\ UNCHANGED <<aux, nrefs, in, out, cur, reqs>>

ShuffleCreate ==
    /\ pc = "start"
    /\ in.filter = "ShuffleChannels"
    /\ out' = shuffleChannelsCreate(in)
    /\ nrefs' = shuffleChannelsCreateRefs(in)
    /\ pc' = "created"
    /\ UNCHANGED <<aux, log, in, cur, reqs, ret>>

ShuffleRequest ==
    /\ pc \in {"created", "done"}
    /\ out.clip.kind = "shuffle"
    /\ \E n \in 0 .. (out.clip.ai.numFrames - 1) :
          /\ cur' = n
          /\ reqs' = shuffleChannelsGetFrameInitial(out.clip.d, n)
    /\ ret' = NoFrame
    /\ pc' = "requested"
    /\ log' = NoLog
    /\ UNCHANGED <<aux, nrefs, in, out>>

ShuffleReady ==
    /\ pc = "requested"
    /\ out.clip.kind = "shuffle"
    /\ ret' = shuffleChannelsGetFrameReady(out.clip.d, cur)
    /\ log' = shuffleChannelsGetFrameLog(out.clip.d, cur)
    /\ pc' = "done"
    /\ UNCHANGED <<aux, nrefs, in, out, cur, reqs>>

NextChannels ==
    \/ MixCreate \/ MixRequest \/ MixReady
    \/ ShuffleCreate \/ ShuffleRequest \/ ShuffleReady

SpecChannels == InitChannels /\ [][NextChannels]_vars

----------------------------------------------------------------------------
(* Claims about AudioTrim *)

\* the sample range Trim is asked for, from the arguments as given
AskedFirst == in.first
AskedTrimLen ==
    IF in.lastset THEN in.last - in.first + 1
    ELSE IF in.lengthset THEN in.length
    ELSE in.clip.ai.numSamples - in.first

TrimBuilt == out.error = "" /\ out.clip.kind = "trim"

\* the output frame ret holds len samples, sample i being source sample from + i
FrameIsRange(f, clip, from, len) ==
    /\ f.length = len
    /\ \A ch \in Channels(clip.ai.format) : \A i \in 0 .. (len - 1) :
          f.data[ch][i] = SrcSample(clip, ch, from + i)

\* the arguments describe a non-empty sample range inside the source
AskedValid ==
    /\ ~(in.lastset /\ in.lengthset)
    /\ AskedFirst >= 0
    /\ AskedTrimLen >= 1
    /\ AskedFirst + AskedTrimLen <= in.clip.ai.numSamples

\* all sample counts and arguments of the scenario fit the `int` type
TrimFitsInt ==
    /\ in.clip.ai.numSamples <= IntMax
    /\ in.first <= IntMax /\ in.last <= IntMax /\ in.length <= IntMax

\* C1: every output frame n of a successfully constructed Trim has length
\* min(spf, trimlen - n*spf) and its sample i is source sample
\* first + n*spf + i of the same channel, on every path.
C1_TrimSamples ==
    (/\ pc = "done" /\ TrimBuilt /\ AskedValid
     /\ cur < CeilDiv(AskedTrimLen, SamplesPerFrame)) =>
        FrameIsRange(ret, in.clip, AskedFirst + cur * SamplesPerFrame,
                     Min(SamplesPerFrame, AskedTrimLen - cur * SamplesPerFrame))

\* the conditions under which C2 says construction fails
C2_MustFail ==
    \/ (in.lastset /\ in.lengthset)
    \/ (in.lastset /\ in.last < in.first)
    \/ (in.lengthset /\ in.length < 1)
    \/ in.first < 0
    \/ in.first >= in.clip.ai.numSamples
    \/ (in.lastset /\ in.last >= in.clip.ai.numSamples)
    \/ (in.lengthset /\ in.first + in.length > in.clip.ai.numSamples)

\* C2: audioTrimCreate sets an error and creates no node exactly under the
\* listed conditions; otherwise it succeeds with a range of >= 1 sample.
C2_TrimCreateFails ==
    (pc # "start") =>
        /\ (out.error # "") = C2_MustFail
        /\ (out.error # "") => out.clip = NoNode
        /\ (out.error = "") => (out.clip # NoNode /\ out.clip.ai.numSamples >= 1)

\* the range asked for is the whole source
AskedWholeSource ==
    \/ (~in.firstset /\ ~in.lastset /\ ~in.lengthset)
    \/ (AskedFirst = 0 /\ AskedTrimLen = in.clip.ai.numSamples)

\* C3: Trim returns the source node itself exactly when the asked range is
\* the whole source; in every other valid case it creates a Trim node whose
\* total sample count is the trimmed length.
C3_TrimElision ==
    (pc # "start" /\ AskedValid) =>
        /\ out.error = ""
        /\ (out.clip = in.clip) = AskedWholeSource
        /\ ~AskedWholeSource =>
              (out.clip.kind = "trim" /\ out.clip.ai.numSamples = AskedTrimLen)

\* the source frames C4 says output frame n has to request
C4_Expected(n) ==
    LET spf == SamplesPerFrame
        start == AskedFirst + n * spf
        len == Min(spf, AskedTrimLen - n * spf)
        f0 == start \div spf
    IN  IF (start % spf) + len > spf
        THEN <<requestFrameFilter(f0, in.clip), requestFrameFilter(f0 + 1, in.clip)>>
        ELSE <<requestFrameFilter(f0, in.clip)>>

\* C4: the request phase of output frame n asks for source frame
\* floor((first + n*spf)/spf), and for the next one exactly when the output
\* range extends past the end of that frame, and for nothing else.
C4_TrimRequests ==
    (/\ pc \in {"requested", "done"} /\ TrimBuilt /\ AskedValid
     /\ cur < CeilDiv(AskedTrimLen, SamplesPerFrame)) =>
        reqs = C4_Expected(cur)

\* The Trim properties restricted to inputs whose counts and arguments fit
\* the `int` type; these hold.
C1_TrimSamplesFitsInt == TrimFitsInt => C1_TrimSamples
C2_FitsInt == TrimFitsInt => C2_TrimCreateFails
C3_FitsInt == TrimFitsInt => C3_TrimElision
C4_FitsInt == TrimFitsInt => C4_TrimRequests

----------------------------------------------------------------------------
(* Claims about AudioSplice *)

RECURSIVE SumLens(_, _)
\* total sample count of the first k clips of the list
SumLens(clips, k) == IF k = 0 THEN 0 ELSE SumLens(clips, k - 1) + clips[k].ai.numSamples

RECURSIVE ConcatSample(_, _, _, _)
\* sample i of channel ch of the concatenation of the clips from index k on
ConcatSample(clips, k, ch, i) ==
    IF i < clips[k].ai.numSamples \/ k = Len(clips)
    THEN SrcSample(clips[k], ch, i)
    ELSE ConcatSample(clips, k + 1, ch, i - clips[k].ai.numSamples)

\* frame f holds len samples, sample i being sample from + i of the concatenation
FrameIsConcat(f, clips, from, len) ==
    /\ f.length = len
    /\ \A ch \in Channels(clips[1].ai.format) : \A i \in 0 .. (len - 1) :
          f.data[ch][i] = ConcatSample(clips, 1, ch, from + i)

SameFormats ==
    \A k \in 1 .. Len(in.clips) : isSameAudioFormat(in.clips[1].ai, in.clips[k].ai)

\* every sample count and frame count of the scenario fits its type
SpliceFitsInt == SumLens(in.clips, Len(in.clips)) <= IntMax

\* the spliced stream is one a descriptor can describe: its frame count fits `int`
SpliceRepresentable ==
    SumLens(in.clips, Len(in.clips)) <= IntMax * SamplesPerFrame

SpliceBuilt == pc # "start" /\ out.error = "" /\ out.clip.kind = "splice"

\* C5: Splice(A,B) has total length a+b, and sample i of every output frame
\* is A[i] for i < a and B[i-a] for i >= a, on both paths.
C5_SpliceSamples ==
    (SpliceBuilt /\ SpliceRepresentable /\ Len(in.clips) = 2) =>
        /\ out.clip.ai.numSamples = SumLens(in.clips, 2)
        /\ (pc = "done" /\ cur < CeilDiv(SumLens(in.clips, 2), SamplesPerFrame)) =>
              FrameIsConcat(ret, in.clips, cur * SamplesPerFrame,
                            Min(SamplesPerFrame,
                                SumLens(in.clips, 2) - cur * SamplesPerFrame))

\* C6: audioSplice2Create fails exactly when the formats differ or
\* len1 + len2 overflows the sample-count width; otherwise the descriptor has
\* total_samples = len1 + len2 and frame_count = ceil(total_samples / spf).
C6_SpliceCreate ==
    (pc # "start" /\ Len(in.clips) = 2) =>
        LET len1 == in.clips[1].ai.numSamples
            len2 == in.clips[2].ai.numSamples
            mustFail == \/ ~SameFormats
                        \/ ToInt64(len1 + len2) < len1
                        \/ ToInt64(len1 + len2) < len2
        IN  /\ (out.error # "") = mustFail
            /\ (out.error # "") => out.clip = NoNode
            /\ (out.error = "") =>
                  /\ out.clip.d.ai.numSamples = len1 + len2
                  /\ out.clip.d.ai.numFrames = CeilDiv(len1 + len2, SamplesPerFrame)

\* Splice(A, Splice(B, C)) built with the same constructor
C7_RightFold ==
    audioSplice2Create(in.clips[1],
                       audioSplice2Create(in.clips[2], in.clips[3], "wrap").clip,
                       "wrap")

\* C7: the list [A,B,C], folded as Splice(Splice(A,B),C), has the same total
\* length and, frame by frame, the same samples as Splice(A, Splice(B,C));
\* a single-element list is returned unchanged.
C7_SpliceAssociative ==
    /\ (pc # "start" /\ Len(in.clips) = 1) => (out.error = "" /\ out.clip = in.clips[1])
    /\ (SpliceBuilt /\ SpliceRepresentable /\ Len(in.clips) = 3) =>
          /\ C7_RightFold.error = ""
          /\ C7_RightFold.clip.ai.numSamples = out.clip.ai.numSamples
          /\ C7_RightFold.clip.ai.numFrames = out.clip.ai.numFrames
          /\ pc = "done" =>
                LET g == GetFrame(C7_RightFold.clip, cur)
                IN  /\ g.length = ret.length
                    /\ \A ch \in Channels(out.clip.ai.format) :
                          \A i \in 0 .. (ret.length - 1) :
                             g.data[ch][i] = ret.data[ch][i]

\* The Splice properties restricted to totals that fit the `int` type;
\* these hold.
C5_FitsInt == SpliceFitsInt => C5_SpliceSamples
C6_FitsInt == SpliceFitsInt => C6_SpliceCreate
C7_FitsInt == SpliceFitsInt => C7_SpliceAssociative

----------------------------------------------------------------------------
(* Claims about AudioMix and ShuffleChannels *)

MixBuilt == in.filter = "AudioMix" /\ pc # "start" /\ out.error = "" /\ out.clip.kind = "mix"

\* the C x C identity matrix, row-major
IdentityMatrix(c) == [k \in 1 .. (c * c) |-> IF (k - 1) \div c = (k - 1) % c THEN 1 ELSE 0]

\* a single multichannel source mixed with the identity onto its own layout
C8_Case ==
    /\ in.filter = "AudioMix"
    /\ Len(in.clips) = 1
    /\ in.clips[1].ai.format.numChannels >= 2
    /\ in.channels_out = in.clips[1].ai.format.channelLayout
    /\ in.matrix = IdentityMatrix(in.clips[1].ai.format.numChannels)

\* C8: Mix of one source with C >= 2 channels, the identity matrix and the
\* source's own layout: every output channel o equals source channel o,
\* sample for sample, in every frame.
C8_MixIdentity ==
    (C8_Case /\ pc # "start") =>
        /\ out.error = ""
        /\ pc = "done" =>
              /\ ret.length = FrameLen(in.clips[1].ai, cur)
              /\ \A o \in Channels(in.clips[1].ai.format) :
                    \A i \in 0 .. (ret.length - 1) :
                       ret.data[o][i] =
                          SrcSample(in.clips[1], o, cur * SamplesPerFrame + i)

\* sample i of frame n of the physical channel that source row s stands for
C9_RowSample(s, n, i) ==
    LET row == MixRows(in.clips, 1)[s]
    IN  SrcSample(in.clips[row[1]], row[2], n * SamplesPerFrame + i)

\* sum over the source rows s of matrix[o*numSrcChannels + s] * src_s[i]
C9_Sum(o, n, i) ==
    LET numSrcChannels == NumChannelsOf(in.clips, Len(in.clips))
    IN  Sum([s \in 1 .. numSrcChannels |->
                in.matrix[o * numSrcChannels + s] * C9_RowSample(s, n, i)],
            numSrcChannels)

\* C9: with integer weights and integer samples every output sample is the
\* weighted sum, capped above at 2^(bitsPerSample-1) - 1 for 32-bit
\* integer output (no lower cap) and not capped for 16-bit output; stated
\* for the sums whose narrowed value the output type can hold.
C9_MixNarrowing ==
    (/\ MixBuilt /\ pc = "done"
     /\ out.clip.ai.format.sampleType = "stInteger"
     /\ \A k \in DOMAIN in.clips : in.clips[k].ai.format.numChannels = 1) =>
        \A o \in Channels(out.clip.ai.format) : \A i \in 0 .. (ret.length - 1) :
            LET bits == out.clip.ai.format.bitsPerSample
                wide == out.clip.ai.format.bytesPerSample = 4
                sum == C9_Sum(o, cur, i)
                want == IF wide THEN Min(sum, Pow2(bits - 1) - 1) ELSE sum
                width == IF wide THEN Bits32 ELSE Bits16
            IN  (want >= 0 - Pow2(width - 1) /\ want <= Pow2(width - 1) - 1) =>
                    ret.data[o][i] = want

\* the upstream nodes of the Mix or Shuffle node
C10_Upstreams ==
    { out.clip.d.sourceNodes[r].node.clip : r \in DOMAIN out.clip.d.sourceNodes }

\* C10: in the request phase of Mix and of Shuffle for output frame n, each
\* distinct upstream node receives exactly one request, for frame n.
C10_OneRequestPerNode ==
    (pc \in {"requested", "done"} /\ out.clip.kind \in {"mix", "shuffle"}) =>
        /\ \A k \in DOMAIN reqs : reqs[k].n = cur
        /\ \A c \in C10_Upstreams :
              Cardinality({ k \in DOMAIN reqs : reqs[k].node.clip = c }) = 1

----------------------------------------------------------------------------
(* Claims about ShuffleChannels *)

ShuffleBuilt ==
    in.filter = "ShuffleChannels" /\ pc # "start" /\ out.error = "" /\ out.clip.kind = "shuffle"

\* the source node of destination channel i (1-based), as listed in `clip`
ShuffleSource(i) == in.clips[Min(Len(in.clips), i)]

\* the requested channel identity of destination channel i is in its source
ShufflePresent(i) ==
    HasBit(ShuffleSource(i).ai.format.channelLayout, in.channels_in[i])

\* the samples source s supplies to output frame n
ShuffleAvail(s, n) == IF n < s.ai.numFrames THEN FrameLen(s.ai, n) ELSE 0

\* popcount(L AND (2^c - 1)): the physical index of channel identity c
PhysicalIndex(L, c) == Cardinality({ j \in 0 .. (c - 1) : HasBit(L, j) })

\* C11: destination channel i of output frame n equals, over the copied
\* length, the buffer of source s_i's frame n at physical index
\* popcount(L_i AND (2^c_i - 1)).
C11_ShuffleChannel ==
    (ShuffleBuilt /\ pc = "done"
        /\ \A i \in DOMAIN in.channels_in : ShufflePresent(i)) =>
        \A i \in DOMAIN in.channels_in :
            LET s == ShuffleSource(i)
                phys == PhysicalIndex(s.ai.format.channelLayout, in.channels_in[i])
            IN  \A p \in 0 .. (Min(ret.length, ShuffleAvail(s, cur)) - 1) :
                    ret.data[i - 1][p] = SrcFrame(s, cur).data[phys][p]

\* the arguments pass every construction check other than channel presence
ShuffleArgsFit ==
    /\ in.filter = "ShuffleChannels"
    /\ Len(in.clips) <= Len(in.channels_in)
    /\ PopCount(in.channels_out) = Len(in.channels_in)
    /\ \A k \in DOMAIN in.clips :
          /\ in.clips[k].ai.sampleRate = in.clips[1].ai.sampleRate
          /\ in.clips[k].ai.format.bitsPerSample = in.clips[1].ai.format.bitsPerSample
          /\ in.clips[k].ai.format.sampleType = in.clips[1].ai.format.sampleType

\* C12: Shuffle construction fails with the channel-not-present error exactly
\* when some requested channel identity is not a set bit of its source's
\* layout; Mix, whose rows are the channels its sources have, never does.
C12_ChannelPresence ==
    /\ (pc # "start" /\ ShuffleArgsFit) =>
          /\ (out.error = "ShuffleChannels: specified channel is not present in input")
                = (\E i \in DOMAIN in.channels_in : ~ShufflePresent(i))
          /\ (\A i \in DOMAIN in.channels_in : ShufflePresent(i)) => out.error = ""
    /\ (pc # "start" /\ in.filter = "AudioMix") =>
          out.error # "AudioMix: specified channel is not present in input"

\* the sample count C13 prescribes: the maximum over the sources
ShuffleTotal ==
    LET S == { in.clips[k].ai.numSamples : k \in DOMAIN in.clips }
    IN  CHOOSE m \in S : \A x \in S : x <= m

\* C13: the output total is the maximum of the sources' sample counts; every
\* output frame n has length L = min(spf, total - n*spf), positions below
\* min(L, available source length) hold the samples of the source channel
\* read and the positions from there to L hold zero.
C13_ShuffleZeroFill ==
    (ShuffleBuilt /\ pc = "done") =>
        /\ out.clip.ai.numSamples = ShuffleTotal
        /\ ret.length = Min(SamplesPerFrame, ShuffleTotal - cur * SamplesPerFrame)
        /\ \A i \in DOMAIN in.channels_in :
            LET s == ShuffleSource(i)
                phys == out.clip.d.sourceNodes[i].idx
                copy == Min(ret.length, ShuffleAvail(s, cur))
            IN  /\ \A p \in 0 .. (copy - 1) :
                      ret.data[i - 1][p] = SrcFrame(s, cur).data[phys][p]
                /\ \A p \in copy .. (ret.length - 1) : ret.data[i - 1][p] = 0

\* the Shuffle properties restricted to sources whose sample counts fit `int`
ShuffleFitsInt == \A k \in DOMAIN in.clips : in.clips[k].ai.numSamples <= IntMax
C13_FitsInt == ShuffleFitsInt => C13_ShuffleZeroFill

----------------------------------------------------------------------------
(* SplitChannels *)

\* splitChannelsGetFrame, activationReason == arInitial
splitChannelsGetFrameInitial(d, n) == <<requestFrameFilter(n, d.node)>>

\* a Split that copies the first channel of the source for every output and
\* keeps the source frame
splitChannelsFirstChannel(d, n, k) ==
    LET src == getFrameFilter(n, d.node)
        dst == newAudioFrame(d.ai[k + 1].format, src.length)
    IN  [frame |-> [dst EXCEPT !.data[0] =
                        memcpy(dst.data[0], 0, src.data[0], 0, src.length)],
         held |-> {src.ref}]

\* splitChannelsGetFrame, activationReason == arAllFramesReady: the frame
\* returned and the references obtained by getFrameFilter and not freed
splitChannelsGetFrameReady(d, n, k) ==
    LET src == getFrameFilter(n, d.node)
        length == src.length
        dst == newAudioFrame(d.ai[k + 1].format, length)
        obtained == {src.ref}
        freed == {src.ref}
    IN  [frame |-> [dst EXCEPT !.data[0] =
                        memcpy(dst.data[0], 0, src.data[k], 0, length)],
         held |-> obtained \ freed]

\* splitChannelsCreate: one output per channel of the source
splitChannelsCreate(a) ==
    LET ai == a.clip.ai
        numChannels == ai.format.numChannels
        one == [ai EXCEPT !.format =
                   queryAudioFormat(ai.format.sampleType, ai.format.bitsPerSample, 1)]
        dai == [i \in 1 .. numChannels |-> one]
    IN  [error |-> "",
         clip |-> [kind |-> "split",
                   numOutputs |-> numChannels,
                   ai |-> [i \in 1 .. numChannels |-> createAudioFilter(dai[i])],
                   d |-> [ai |-> dai, node |-> a.clip, numChannels |-> numChannels]]]

----------------------------------------------------------------------------
(* AssumeSampleRate *)

\* assumeSampleRateGetframe, activationReason == arInitial
assumeSampleRateGetframeInitial(d, n) == <<requestFrameFilter(n, d.node)>>

\* assumeSampleRateGetframe, activationReason == arAllFramesReady
assumeSampleRateGetframeReady(d, n) == getFrameFilter(n, d.node)

\* assumeSampleRateCreate; a.samplerate is 0 when the argument is absent
assumeSampleRateCreate(a) ==
    LET hassamplerate == a.samplerateset
        hassrc == a.srcset
        given == int64ToIntS(a.samplerate)
        \* with src given the rate is read from d->node, the clip itself
        sampleRate == IF hassrc THEN a.clip.ai.sampleRate ELSE given
        ai == [a.clip.ai EXCEPT !.sampleRate = sampleRate]
        Fail(msg) == [error |-> msg, clip |-> NoNode]
    IN  IF hassamplerate = hassrc
        THEN Fail("AssumeSampleRate: need to specify source clip or samplerate")
        ELSE IF ai.sampleRate < 1
        THEN Fail("AssumeSampleRate: invalid samplerate specified")
        ELSE [error |-> "",
              clip |-> [kind |-> "asr",
                        ai |-> createAudioFilter(ai),
                        d |-> [node |-> a.clip]]]

\* splitChannelsCreate: propGetNode on line 651, kept in d->node
splitChannelsCreateRefs(a) == LRegister(LAcquire(NoRefs, 0), <<1>>)

\* assumeSampleRateCreate: propGetNode of "clip" (line 690) and, when given,
\* of "src" (line 697), which is freed on line 702
assumeSampleRateCreateRefs(a) ==
    LET r == assumeSampleRateCreate(a)
        clip == LAcquire(NoRefs, 0)
        src == LAcquire(clip, 0)
        got == IF a.srcset THEN LRelease(src, LastRef(src)) ELSE clip
    IN  IF r.error # ""
        THEN LClearMap(LRelease(got, 1))
        ELSE LRegister(got, <<1>>)

\* splitChannelsGetFrame, arAllFramesReady: its vsapi calls
splitChannelsGetFrameLog(d, n, k) ==
    LET length == getFrameFilter(n, d.node).length
    IN  FrameLog(<<getFrameFilterCall(n, d.node)>>, <<length>>,
                 <<Copy(1, 0, 0, length)>>, <<1>>, 0)

\* assumeSampleRateGetframe, arAllFramesReady: its vsapi calls
assumeSampleRateGetframeLog(d, n) ==
    FrameLog(<<getFrameFilterCall(n, d.node)>>, <<>>, <<>>, <<>>, 1)

----------------------------------------------------------------------------
(* Scenario: SplitChannels or AssumeSampleRate over one source stream *)

\* sources of one to three channels, of layouts with and without the lowest bit
SplitInputs ==
    { [filter |-> "SplitChannels",
       clip |-> SrcClip(1, MixFormat(kind, la), 48000, ns, 1000)] :
        kind \in {"int16", "float"}, la \in {1, 2, 3, 6, 7},
        ns \in {MixSamples, MixSamples + 3, MaxSamples} }

\* sample rates small enough to lie inside the modelled range of `int`
RateValues == {0 - 1, 0, 1, 4, IntMax, IntMax + 1}

AssumeInputs ==
    { [filter |-> "AssumeSampleRate",
       clip |-> SrcClip(1, Stereo16, 2, ns, 1000),
       samplerateset |-> rs, samplerate |-> IF rs THEN r ELSE 0,
       srcset |-> ss, src |-> SrcClip(2, Stereo16, srcRate, MixSamples, 2000)] :
        ns \in {MixSamples, MaxSamples}, rs \in BOOLEAN, r \in RateValues,
        ss \in BOOLEAN, srcRate \in {2, 3} }

InitPass ==
    /\ pc = "start"
    /\ AuxIdle
    /\ in \in SplitInputs \cup AssumeInputs
    /\ out = [error |-> "", clip |-> NoNode]
    /\ cur = 0
    /\ reqs = <<>>
    /\ ret = NoFrame

SplitCreate ==
    /\ pc = "start"
    /\ in.filter = "SplitChannels"
    /\ out' = splitChannelsCreate(in)
    /\ nrefs' = splitChannelsCreateRefs(in)
    /\ pc' = "created"
    /\ UNCHANGED <<aux, log, in, cur, reqs, ret>>

SplitRequest ==
    /\ pc \in {"created", "done"}
    /\ out.clip.kind = "split"
    /\ \E k \in 0 .. (out.clip.numOutputs - 1) :
       \E n \in 0 .. (out.clip.ai[k + 1].numFrames - 1) :
          /\ cur' = n
          /\ outIdx' = k
          /\ reqs' = splitChannelsGetFrameInitial(out.clip.d, n)
    /\ ret' = NoFrame
    /\ held' = {}
    /\ pc' = "requested"
    /\ log' = NoLog
    /\ UNCHANGED <<in, out, heap, thr, rets, nrefs>>

SplitReady ==
    /\ pc = "requested"
    /\ out.clip.kind = "split"
    /\ LET r == splitChannelsGetFrameReady(out.clip.d, cur, outIdx)
       IN  ret' = r.frame /\ held' = r.held
    /\ log' = splitChannelsGetFrameLog(out.clip.d, cur, outIdx)
    /\ pc' = "done"
    /\ UNCHANGED <<in, out, cur, reqs, outIdx, heap, thr, rets, nrefs>>

AssumeCreate ==
    /\ pc = "start"
    /\ in.filter = "AssumeSampleRate"
    /\ out' = assumeSampleRateCreate(in)
    /\ nrefs' = assumeSampleRateCreateRefs(in)
    /\ pc' = "created"
    /\ UNCHANGED <<aux, log, in, cur, reqs, ret>>

AssumeRequest ==
    /\ pc \in {"created", "done"}
    /\ out.clip.kind = "asr"
    /\ \E n \in 0 .. (out.clip.ai.numFrames - 1) :
          /\ cur' = n
          /\ reqs' = assumeSampleRateGetframeInitial(out.clip.d, n)
    /\ ret' = NoFrame
    /\ pc' = "requested"
    /\ log' = NoLog
    /\ UNCHANGED <<aux, nrefs, in, out>>

AssumeReady ==
    /\ pc = "requested"
    /\ out.clip.kind = "asr"
    /\ ret' = assumeSampleRateGetframeReady(out.clip.d, cur)
    /\ log' = assumeSampleRateGetframeLog(out.clip.d, cur)
    /\ pc' = "done"
    /\ UNCHANGED <<aux, nrefs, in, out, cur, reqs>>

NextPass ==
    \/ SplitCreate \/ SplitRequest \/ SplitReady
    \/ AssumeCreate \/ AssumeRequest \/ AssumeReady

SpecPass == InitPass /\ [][NextPass]_vars

----------------------------------------------------------------------------
(* Claims about SplitChannels and AssumeSampleRate *)

SplitBuilt == in.filter = "SplitChannels" /\ pc # "start" /\ out.clip.kind = "split"

\* C14: Split registers one output per source channel; a request for frame
\* n of output k issues exactly one request, for frame n of the source, and
\* returns a newly allocated single-channel frame of the source frame's
\* length holding the source frame's channel k; the source frame is released.
C14_SplitChannels ==
    /\ (pc # "start" /\ in.filter = "SplitChannels") =>
          /\ out.error = "" /\ out.clip.kind = "split"
          /\ out.clip.numOutputs = in.clip.ai.format.numChannels
    /\ (SplitBuilt /\ pc \in {"requested", "done"}) =>
          reqs = <<requestFrameFilter(cur, in.clip)>>
    /\ (SplitBuilt /\ pc = "done") =>
          /\ ret.ref[1] = "new"
          /\ DOMAIN ret.data = {0}
          /\ ret.length = SrcFrame(in.clip, cur).length
          /\ \A i \in 0 .. (ret.length - 1) :
                ret.data[0][i] = SrcFrame(in.clip, cur).data[outIdx][i]
          /\ held = {}

\* C14 witness: the last output of a three-channel source has returned the
\* final, short frame
C14_Witness ==
    /\ SplitBuilt /\ pc = "done"
    /\ in.clip.ai.format.numChannels = 3 /\ outIdx = 2
    /\ cur = in.clip.ai.numFrames - 1 /\ ret.length \in 1 .. (SamplesPerFrame - 1)

\* C15: the descriptor of AssumeSampleRate is the source's except for the
\* sample rate, which is the explicit value when only samplerate is given
\* and the reference stream's rate when only src is given; construction
\* fails when both or neither are given or the rate is < 1.
C15_AssumeSampleRate ==
    (pc # "start" /\ in.filter = "AssumeSampleRate") =>
        LET rate == IF in.srcset THEN in.src.ai.sampleRate ELSE in.samplerate
            fails == (in.samplerateset = in.srcset) \/ rate < 1
        IN  /\ (out.error # "") = fails
            /\ fails => out.clip = NoNode
            /\ ~fails => /\ out.clip.kind = "asr"
                         /\ out.clip.ai = [in.clip.ai EXCEPT !.sampleRate = rate]

\* the sample-rate argument fits `int` and the reference has the source's rate
C15_SameRate ==
    (in.filter = "AssumeSampleRate" /\ in.samplerate <= IntMax
        /\ in.src.ai.sampleRate = in.clip.ai.sampleRate) => C15_AssumeSampleRate

----------------------------------------------------------------------------
(* BlankAudio *)

\* conversion of a signed count to size_t
ToSizeT(x) == x % (2 * (Int64Max + 1))

\* a node registered in parallel mode whatever keep is
BlankAlwaysParallel(keep) == "fmParallel"

\* the filter mode blankAudioCreate registers the node with
BlankMode(keep) == IF keep THEN "fmUnordered" ELSE "fmParallel"

\* blankAudioGetframe up to the test of d->keep: the local `frame` (0 is
\* NULL, otherwise the number of the frame in the heap) and the heap
blankAudioGetframeAlloc(d, n, hp) ==
    IF d.f = 0
    THEN LET samples == Min(d.ai.format.samplesPerFrame,
                            ToInt(d.ai.numSamples - n * d.ai.format.samplesPerFrame))
             fresh == newAudioFrame(d.ai.format, samples)
             \* memset takes its count as size_t; writes past the end of the
             \* buffer are not represented
             zeroed == [fresh EXCEPT
                          !.ref = <<"new", Len(hp) + 1, 0>>,
                          !.data = [ch \in Channels(d.ai.format) |->
                                      memset0(fresh.data[ch], 0, ToSizeT(samples))]]
         IN  [frame |-> Len(hp) + 1,
              heap |-> Append(hp, [frame |-> zeroed, refs |-> 1])]
    ELSE [frame |-> 0, heap |-> hp]

\* blankAudioGetframe from the test of d->keep: the frame returned, the
\* memoized slot d->f and the heap after cloneFrameRef
blankAudioGetframeReturn(d, frame, hp) ==
    IF d.keep
    THEN LET f == IF frame # 0 THEN frame ELSE d.f
         IN  [ret |-> f, f |-> f,
              heap |-> IF f \in DOMAIN hp
                       THEN [hp EXCEPT ![f].refs = @ + 1] ELSE hp]
    ELSE [ret |-> frame, f |-> d.f, heap |-> hp]

\* blankAudioCreate; an absent argument has the ...set flag FALSE
blankAudioCreate(a) ==
    LET channels == IF a.channelsset THEN a.channels ELSE 3
        bits == IF a.bitsset THEN int64ToIntS(a.bits) ELSE Bits16
        sampleRate == IF a.samplerateset THEN int64ToIntS(a.samplerate)
                      ELSE DefaultSampleRate
        numSamples == IF a.lengthset THEN a.length
                      ELSE sampleRate * DefaultSeconds
        format == queryAudioFormat(IF a.isfloat THEN "stFloat" ELSE "stInteger",
                                   bits, channels)
        dai == [format |-> format, sampleRate |-> sampleRate,
                numSamples |-> numSamples, numFrames |-> 0]
        Fail(msg) == [error |-> msg, clip |-> NoNode]
    IN  IF sampleRate <= 0 THEN Fail("BlankAudio: invalid sample rate")
        ELSE IF numSamples <= 0 THEN Fail("BlankAudio: invalid length")
        ELSE IF format = NoNode THEN Fail("BlankAudio: invalid format")
        ELSE [error |-> "",
              clip |-> [kind |-> "blank",
                        mode |-> BlankMode(a.keep),
                        ai |-> createAudioFilter(dai),
                        d |-> [f |-> 0, ai |-> dai, keep |-> a.keep]]]

----------------------------------------------------------------------------
(* Scenario: one BlankAudio node served by the scheduler's worker threads *)

Threads == 1 .. NumThreads

BlankInputs ==
    { [filter |-> "BlankAudio",
       channelsset |-> cs, channels |-> IF cs THEN ch ELSE 0,
       bitsset |-> bs, bits |-> IF bs THEN b ELSE 0,
       isfloat |-> fl, keep |-> k,
       samplerateset |-> rs, samplerate |-> IF rs THEN r ELSE 0,
       lengthset |-> ls, length |-> IF ls THEN len ELSE 0] :
        cs \in BOOLEAN, ch \in {0}, bs \in BOOLEAN, b \in {Bits32},
        fl \in BOOLEAN, k \in BOOLEAN, rs \in BOOLEAN, r \in {0},
        ls \in BOOLEAN, len \in {0, MixSamples + 1, MaxSamples} }

ThreadIdle == [pc |-> "idle", n |-> 0, frame |-> 0]

InitBlank ==
    /\ pc = "start"
    /\ in \in BlankInputs
    /\ out = [error |-> "", clip |-> NoNode]
    /\ cur = 0 /\ reqs = <<>> /\ ret = NoFrame
    /\ outIdx = 0 /\ held = {}
    /\ log = NoLog /\ nrefs = NoRefs
    /\ heap = <<>>
    /\ thr = [t \in Threads |-> ThreadIdle]
    /\ rets = <<>>

BlankCreate ==
    /\ pc = "start"
    /\ out' = blankAudioCreate(in)
    /\ pc' = "created"
    /\ UNCHANGED <<aux, log, nrefs, in, cur, reqs, ret>>

\* the frame scheduler: a node in fmUnordered mode is never invoked
\* concurrently with itself, a node in fmParallel mode is
SchedulerAdmits(mode) ==
    mode = "fmUnordered" => \A u \in Threads : thr[u].pc = "idle"

\* a worker thread enters blankAudioGetframe for some frame n
BlankEnter(t) ==
    /\ pc = "created" /\ out.clip.kind = "blank"
    /\ thr[t].pc = "idle"
    /\ Len(rets) + Cardinality({u \in Threads : thr[u].pc # "idle"}) < MaxRequests
    /\ SchedulerAdmits(out.clip.mode)
    /\ \E n \in 0 .. (out.clip.ai.numFrames - 1) :
          LET r == blankAudioGetframeAlloc(out.clip.d, n, heap)
          IN  /\ thr' = [thr EXCEPT ![t] = [pc |-> "allocated", n |-> n, frame |-> r.frame]]
              /\ heap' = r.heap
    /\ UNCHANGED <<pc, in, out, cur, reqs, ret, outIdx, held, rets, log, nrefs>>

\* the thread stores the frame if keep is set and returns
BlankReturn(t) ==
    /\ pc = "created" /\ out.clip.kind = "blank"
    /\ thr[t].pc = "allocated"
    /\ LET r == blankAudioGetframeReturn(out.clip.d, thr[t].frame, heap)
       IN  /\ out' = [out EXCEPT !.clip.d.f = r.f]
           /\ heap' = r.heap
           /\ rets' = Append(rets, [n |-> thr[t].n, frame |-> r.ret, t |-> t])
    /\ thr' = [thr EXCEPT ![t] = ThreadIdle]
    /\ UNCHANGED <<pc, in, cur, reqs, ret, outIdx, held, log, nrefs>>

NextBlank ==
    \/ BlankCreate
    \/ \E t \in Threads : BlankEnter(t)
    \/ \E t \in Threads : BlankReturn(t)

SpecBlank == InitBlank /\ [][NextBlank]_vars

----------------------------------------------------------------------------
(* Claims about BlankAudio *)

BlankBuilt == in.filter = "BlankAudio" /\ pc = "created" /\ out.clip.kind = "blank"

\* the memoized frame slot d->f, 0 while empty
BlankSlot == IF out.clip.kind = "blank" THEN out.clip.d.f ELSE 0

\* frame id of the heap is zero in every position of its length
BlankZeroFilled(id) ==
    \A ch \in DOMAIN heap[id].frame.data :
        \A i \in 0 .. (heap[id].frame.length - 1) : heap[id].frame.data[ch][i] = 0

\* the length the stream descriptor prescribes for frame n
BlankPrescribed(n) ==
    Min(SamplesPerFrame, out.clip.ai.numSamples - n * SamplesPerFrame)

\* C16: with keep=true the first request allocates and zero-fills one frame,
\* stored in the node, and every request returns a new reference to that
\* frame with no further allocation; with keep=false the stored frame stays
\* empty and every request returns a distinct freshly allocated zero-filled
\* frame of length min(spf, total - n*spf).
C16_BlankKeep ==
    BlankBuilt =>
        IF in.keep
        THEN /\ Len(heap) <= 1
             /\ rets # <<>> =>
                   /\ Len(heap) = 1 /\ BlankSlot = 1 /\ BlankZeroFilled(1)
                   /\ \A i \in DOMAIN rets : rets[i].frame = 1
             /\ (\A t \in Threads : thr[t].pc = "idle") =>
                   \A id \in DOMAIN heap : heap[id].refs = 1 + Len(rets)
        ELSE /\ BlankSlot = 0
             /\ \A i, j \in DOMAIN rets : i # j => rets[i].frame # rets[j].frame
             /\ \A i \in DOMAIN rets :
                   /\ rets[i].frame \in DOMAIN heap
                   /\ heap[rets[i].frame].refs = 1
                   /\ heap[rets[i].frame].frame.length = BlankPrescribed(rets[i].n)
                   /\ BlankZeroFilled(rets[i].frame)

\* the total length of the Blank stream fits `int`
BlankFitsInt == BlankBuilt => out.clip.ai.numSamples <= IntMax
C16_FitsInt == BlankFitsInt => C16_BlankKeep

\* the references to frame id: the slot, the callers, and the local variable
\* `frame` of a thread that has not yet stored or returned it
BlankOwners(id) ==
    (IF BlankSlot = id THEN 1 ELSE 0)
      + Cardinality({ i \in DOMAIN rets : rets[i].frame = id })
      + Cardinality({ t \in Threads : thr[t].pc = "allocated" /\ thr[t].frame = id })

C17_State ==
    BlankBuilt =>
        /\ (out.clip.mode = "fmUnordered") = in.keep
        /\ (out.clip.mode = "fmParallel") = ~in.keep
        /\ in.keep => Len(heap) <= 1
        /\ (in.keep /\ rets # <<>>) => Len(heap) = 1
        /\ \A id \in DOMAIN heap : heap[id].refs = BlankOwners(id)

\* C17: Blank is registered unordered exactly when keep=true and parallel
\* otherwise; under every interleaving allowed for that mode the memoized
\* slot is written at most once and never overwritten, a keep=true node
\* allocates exactly one frame, and every allocated frame has its owners.
C17_BlankMemoRace ==
    /\ []C17_State
    /\ [][BlankSlot # 0 => BlankSlot' = BlankSlot]_vars

\* C17 witness: a keep=true node has served two different threads from its
\* one frame
C17_Witness ==
    /\ BlankBuilt /\ in.keep /\ Len(heap) = 1 /\ BlankSlot = 1
    /\ \E i, j \in DOMAIN rets : rets[i].t # rets[j].t

\* C20: with keep=true every returned frame has the length the stream
\* descriptor prescribes for the requested index n.
C20_BlankKeepLength ==
    (BlankBuilt /\ in.keep) =>
        \A i \in DOMAIN rets :
            heap[rets[i].frame].frame.length = BlankPrescribed(rets[i].n)

----------------------------------------------------------------------------
(* TestAudio *)

\* the modulus 0xFFFF of the test pattern, at the scaled width of a sample
TestModulus == Pow2(Bits16) - 1

\* conversion to uint16_t
ToUint16(x) == x % Pow2(Bits16)

\* testAudioGetframe, activationReason == arInitial
testAudioGetframe(d, n) ==
    LET samples == Min(d.ai.format.samplesPerFrame,
                       ToInt(d.ai.numSamples - n * d.ai.format.samplesPerFrame))
        startSample == n * d.ai.format.samplesPerFrame
        frame == newAudioFrame(d.ai.format, samples)
    IN  [frame EXCEPT !.data =
            [ch \in Channels(d.ai.format) |->
                [i \in Positions(d.ai.format) |->
                    IF i < samples
                    THEN ToUint16((startSample + i) % TestModulus)
                    ELSE frame.data[ch][i]]]]

\* testAudioCreate; an absent argument has the ...set flag FALSE
testAudioCreate(a) ==
    LET channels == IF a.channelsset THEN a.channels ELSE 3
        bits == IF a.bitsset THEN int64ToIntS(a.bits) ELSE Bits16
        sampleRate == IF a.samplerateset THEN int64ToIntS(a.samplerate)
                      ELSE DefaultSampleRate
        numSamples == IF a.lengthset THEN a.length
                      ELSE sampleRate * DefaultSeconds
        format == queryAudioFormat(IF a.isfloat THEN "stFloat" ELSE "stInteger",
                                   bits, channels)
        dai == [format |-> format, sampleRate |-> sampleRate,
                numSamples |-> numSamples, numFrames |-> 0]
        Fail(msg) == [error |-> msg, clip |-> NoNode]
    IN  IF bits # Bits16 THEN Fail("TestAudio: bits must be 16!")
        ELSE IF sampleRate <= 0 THEN Fail("TestAudio: invalid sample rate")
        ELSE IF numSamples <= 0 THEN Fail("TestAudio: invalid length")
        ELSE IF format = NoNode THEN Fail("TestAudio: invalid format")
        ELSE [error |-> "",
              clip |-> [kind |-> "test",
                        ai |-> createAudioFilter(dai),
                        d |-> [ai |-> dai]]]

----------------------------------------------------------------------------
(* Scenario: one TestAudio node *)

\* streams shorter and longer than the range of a 16-bit sample
TestInputs ==
    { [filter |-> "TestAudio",
       channelsset |-> cs, channels |-> IF cs THEN ch ELSE 0,
       bitsset |-> bs, bits |-> IF bs THEN b ELSE 0,
       isfloat |-> fl,
       samplerateset |-> rs, samplerate |-> IF rs THEN r ELSE 0,
       lengthset |-> ls, length |-> IF ls THEN len ELSE 0] :
        cs \in BOOLEAN, ch \in {0, 1}, bs \in BOOLEAN, b \in {Bits16, Bits24, Bits32},
        fl \in BOOLEAN, rs \in BOOLEAN, r \in {0, 3},
        ls \in BOOLEAN, len \in {0, MixSamples + 1, Pow2(Bits16) + MixSamples} }

InitTest ==
    /\ pc = "start"
    /\ AuxIdle
    /\ in \in TestInputs
    /\ out = [error |-> "", clip |-> NoNode]
    /\ cur = 0
    /\ reqs = <<>>
    /\ ret = NoFrame

TestCreate ==
    /\ pc = "start"
    /\ out' = testAudioCreate(in)
    /\ pc' = "created"
    /\ UNCHANGED <<aux, log, nrefs, in, cur, reqs, ret>>

\* the generator has no upstream: the arInitial call returns the frame
TestGetframe ==
    /\ pc \in {"created", "done"}
    /\ out.clip.kind = "test"
    /\ \E n \in 0 .. (out.clip.ai.numFrames - 1) :
          /\ cur' = n
          /\ ret' = testAudioGetframe(out.clip.d, n)
    /\ pc' = "done"
    /\ UNCHANGED <<aux, log, nrefs, in, out, reqs>>

NextTest == TestCreate \/ TestGetframe

SpecTest == InitTest /\ [][NextTest]_vars

----------------------------------------------------------------------------
(* Claims about TestAudio *)

\* C18: for every frame n, channel and position j of the frame the 16-bit
\* sample written is (n*spf + j) mod 65536, and construction fails for any
\* bit depth other than 16.
C18_TestPattern ==
    /\ (pc # "start" /\ in.bitsset /\ in.bits # Bits16) =>
          (out.error # "" /\ out.clip = NoNode)
    /\ (pc = "done" /\ out.clip.kind = "test") =>
          \A ch \in DOMAIN ret.data : \A j \in 0 .. (ret.length - 1) :
              ret.data[ch][j] = (cur * SamplesPerFrame + j) % Pow2(Bits16)

\* the pattern below the absolute index 65535
C18_Below == (in.length < TestModulus) => C18_TestPattern

----------------------------------------------------------------------------
(* Scenario: any one of the filters that have an upstream *)

\* which constructor the arguments in `in` belong to
InTrim == "firstset" \in DOMAIN in
InSplice == "clips" \in DOMAIN in /\ ~("filter" \in DOMAIN in)
InNamed == "filter" \in DOMAIN in

InitFilters == InitTrim \/ InitSplice \/ InitChannels \/ InitPass

NextFilters ==
    \/ (InTrim /\ NextTrim)
    \/ (InSplice /\ NextSplice)
    \/ (InNamed /\ NextChannels)
    \/ (InNamed /\ NextPass)

SpecFilters == InitFilters /\ [][NextFilters]_vars

----------------------------------------------------------------------------
(* Claims about the frame-length invariant *)

\* the descriptor the node registered for the output being served
RegisteredInfo ==
    IF out.clip.kind = "split" THEN out.clip.ai[outIdx + 1] ELSE out.clip.ai

\* C19: every frame returned by Trim, Splice, Mix, Shuffle, Split and
\* AssumeSampleRate for output index n has length spf when n is not the last
\* frame of the node's output stream and total_samples - (frame_count-1)*spf
\* when it is.
C19_FrameLength ==
    (pc = "done" /\ out.error = ""
        /\ out.clip.kind \in {"trim", "splice", "mix", "shuffle", "split", "asr"}) =>
        LET ai == RegisteredInfo
        IN  ret.length = IF cur # ai.numFrames - 1 THEN SamplesPerFrame
                         ELSE ai.numSamples - (ai.numFrames - 1) * SamplesPerFrame

\* the sample counts of all upstream streams, and the arguments, fit `int`
FiltersFitInt ==
    /\ InTrim => TrimFitsInt
    /\ InSplice => SpliceFitsInt
    /\ (InNamed /\ "clips" \in DOMAIN in) => ShuffleFitsInt
C19_FitsInt == FiltersFitInt => C19_FrameLength

----------------------------------------------------------------------------
(* Claims about the stored stream descriptor *)

\* the node built by the constructor changes the total sample count
ResizingBuilt ==
    pc # "start" /\ out.error = "" /\ out.clip.kind \in {"trim", "splice", "shuffle"}

\* C21: the descriptor a Trim, Splice or Shuffle node stores (d->ai, the one
\* its frame callback reads) and the one it is registered with both have
\* frame_count = ceil(total_samples / spf) for the node's new total.
C21_StoredFrameCount ==
    ResizingBuilt =>
        /\ out.clip.d.ai.numFrames
              = CeilDiv(out.clip.d.ai.numSamples, SamplesPerFrame)
        /\ out.clip.ai.numFrames = CeilDiv(out.clip.ai.numSamples, SamplesPerFrame)

\* the same for the inputs whose counts fit `int`; it fails as well
C21_FitsInt == FiltersFitInt => C21_StoredFrameCount

\* the registered descriptor alone, inside the `int` range; this holds
C21_Registered ==
    (ResizingBuilt /\ FiltersFitInt) =>
        out.clip.ai.numFrames = CeilDiv(out.clip.ai.numSamples, SamplesPerFrame)

----------------------------------------------------------------------------
(* Claims about frame references *)

\* a frame callback of a node with upstreams has completed its ready phase
ReadyDone ==
    /\ pc = "done" /\ out.error = ""
    /\ out.clip.kind \in {"trim", "splice", "mix", "shuffle", "split", "asr"}

\* how often the k-th fetched reference was passed to freeFrame or returned
Disposals(k) ==
    Cardinality({ i \in DOMAIN log.freed : log.freed[i] = k })
        + (IF log.returned = k THEN 1 ELSE 0)

\* C22: in every ready-phase call of Trim, Splice, Mix, Shuffle, Split and
\* AssumeSampleRate each reference obtained by getFrameFilter is freed or
\* returned, exactly once; nothing else is freed; every write goes to the
\* frame allocated by the same call, which is the frame returned; no fetched
\* frame is written to.
C22_FrameRefs ==
    ReadyDone =>
        /\ \A k \in DOMAIN log.fetched : Disposals(k) = 1
        /\ \A i \in DOMAIN log.freed : log.freed[i] \in DOMAIN log.fetched
        /\ log.returned \in {0} \cup DOMAIN log.fetched
        /\ Len(log.allocated) = IF log.returned = 0 THEN 1 ELSE 0
        /\ \A i \in DOMAIN log.copies :
              log.copies[i].to = 0 /\ Len(log.allocated) = 1
        /\ (out.clip.kind = "split") => held = {}

\* a Trim call that fetched two source frames, copied from both into a new
\* frame and freed both
C22_Witness ==
    /\ ReadyDone /\ out.clip.kind = "trim"
    /\ Len(log.fetched) = 2 /\ log.freed = <<1, 2>> /\ log.returned = 0
    /\ Len(log.copies) = 2

----------------------------------------------------------------------------
(* Claims about node references *)

\* a constructor of a node with upstreams has returned
Constructed == pc # "start" /\ (InTrim \/ InSplice \/ InNamed)

\* the references acquired and not released
Live(L) ==
    { h \in DOMAIN L.acquired : \A i \in DOMAIN L.released : L.released[i] # h }

\* no reference was passed to freeNode twice
ReleasedOnce(L) ==
    \A i, j \in DOMAIN L.released : i # j => L.released[i] # L.released[j]

\* the references kept by the instance data of the nodes that exist
KeptByNodes(L) ==
    UNION { { L.nodes[j].kept[i] : i \in DOMAIN L.nodes[j].kept } :
              j \in { k \in DOMAIN L.nodes : L.nodes[k].alive } }

\* what C23 says of a successful construction: the references still held
\* are those kept by the instance data of the nodes behind the returned
\* clip, and the free callbacks release all of them, once, when the
\* returned clip is freed
RefsOfSuccess ==
    /\ out.clip # NoNode
    /\ nrefs.map >= 0
    /\ Live(nrefs) = KeptByNodes(nrefs)
    /\ Live(LClearMap(nrefs)) = {}
    /\ ReleasedOnce(LClearMap(nrefs))

\* C23 as stated: on every failing path of every constructor an error is
\* reported, no node is registered (createAudioFilter is never called) and
\* as many references are released as were acquired; on every succeeding
\* path the references still held are those the free callback releases.
C23_ConstructorRefs ==
    Constructed =>
        /\ ReleasedOnce(nrefs)
        /\ (out.error # "") =>
              /\ out.clip = NoNode /\ nrefs.map = 0 - 1
              /\ nrefs.nodes = <<>>
              /\ Live(nrefs) = {}
        /\ (out.error = "") => RefsOfSuccess

\* C23 amended: on a failing path no node is left registered: the out map
\* holds no clip and every node an earlier step of the Splice wrapper
\* created has been destroyed again, its references released by its free
\* callback.  The rest as stated.
C23_NoNodeRemains ==
    Constructed =>
        /\ ReleasedOnce(nrefs)
        /\ (out.error # "") =>
              /\ out.clip = NoNode /\ nrefs.map = 0 - 1
              /\ \A j \in DOMAIN nrefs.nodes : ~nrefs.nodes[j].alive
              /\ Live(nrefs) = {}
        /\ (out.error = "") => RefsOfSuccess

\* the Splice wrapper failed at its second pair, after creating the node of
\* the first pair: eight references acquired, all released
C23_Witness ==
    /\ Constructed /\ InSplice /\ out.error # ""
    /\ Len(nrefs.nodes) = 1 /\ ~nrefs.nodes[1].alive
    /\ Len(nrefs.acquired) = 8 /\ Live(nrefs) = {}

----------------------------------------------------------------------------
(* Claims about the two phases of the frame callback *)

\* a node with upstreams was constructed
UpstreamBuilt ==
    /\ out.error = ""
    /\ out.clip.kind \in {"trim", "splice", "mix", "shuffle", "split", "asr"}

\* C24: for every node with upstreams and every output frame n, the request
\* phase fetches nothing and returns no frame, the ready phase requests
\* nothing, and every (node, frame index) pair the ready phase fetches was
\* requested by the request phase of the same n.
C24_FetchRequested ==
    UpstreamBuilt =>
        /\ (pc = "requested") =>
              /\ ret = NoFrame
              /\ log.fetched = <<>>
              /\ reqs # <<>>
        /\ (pc = "done") =>
              /\ log.requested = <<>>
              /\ \A k \in DOMAIN log.fetched :
                    \E i \in DOMAIN reqs : reqs[i] = log.fetched[k]

\* a Trim call that fetched two frames, both requested before
C24_Witness ==
    /\ UpstreamBuilt /\ out.clip.kind = "trim" /\ pc = "done"
    /\ Len(reqs) = 2 /\ Len(log.fetched) = 2
    /\ log.fetched[2].n = log.fetched[1].n + 1

----------------------------------------------------------------------------
(* Claims about the frames requested *)

\* the stream descriptor of the node a request or fetch names
UpstreamInfo(node) == IF "clip" \in DOMAIN node THEN node.clip.ai ELSE node.ai

\* the request was answered by a fetch whose frame was returned or had at
\* least one sample copied out of it
RequestUsed(r) ==
    \E k \in DOMAIN log.fetched :
        /\ log.fetched[k] = r
        /\ \/ log.returned = k
           \/ \E i \in DOMAIN log.copies :
                 log.copies[i].from = k /\ log.copies[i].count > 0

\* C25: every request a node issues for a valid output frame n names a
\* frame index inside the upstream's frame range, and at least one sample
\* of that frame reaches the output (copied, mixed or returned as is).
C25_RequestsNeeded ==
    (UpstreamBuilt /\ pc = "done") =>
        \A i \in DOMAIN reqs :
            /\ reqs[i].n >= 0
            /\ reqs[i].n < UpstreamInfo(reqs[i].node).numFrames
            /\ RequestUsed(reqs[i])

\* the same for the inputs whose counts fit `int`; it fails as well
C25_FitsInt == FiltersFitInt => C25_RequestsNeeded

\* the nodes other than Splice and Shuffle, inside the `int` range; this holds
C25_Others ==
    (FiltersFitInt /\ UpstreamBuilt /\ out.clip.kind \notin {"splice", "shuffle"})
        => C25_RequestsNeeded

\* Splice alone, and Shuffle alone, inside the `int` range; both fail
C25_Splice == (FiltersFitInt /\ InSplice) => C25_RequestsNeeded
C25_Shuffle ==
    (FiltersFitInt /\ UpstreamBuilt /\ out.clip.kind = "shuffle") => C25_RequestsNeeded

----------------------------------------------------------------------------
(* Claims about the paths of AudioSplice *)

\* a frame callback of a Splice node has completed its ready phase
SpliceDone == SpliceBuilt /\ pc = "done"

\* the two sources of the Splice node and the first one's counts
SpliceFirst == out.clip.d.node1
SpliceSecond == out.clip.d.node2
SpliceAligned == SpliceFirst.ai.numSamples % SamplesPerFrame = 0
SpliceSeam == SpliceFirst.ai.numFrames - 1

\* the call requested the one frame r, and returned the reference it got for
\* it, without allocating or copying
PlainPassthrough(r) ==
    /\ reqs = <<r>>
    /\ log.fetched = <<r>>
    /\ log.returned = 1 /\ log.freed = <<>>
    /\ log.allocated = <<>> /\ log.copies = <<>>
    /\ ret = getFrameFilter(r.n, r.node)

\* the call requested the frames r1 and r2, allocated a frame, copied out of
\* both fetched frames into it, freed both and returned the new frame
Stitched(r1, r2) ==
    /\ reqs = <<r1, r2>>
    /\ log.fetched = <<r1, r2>>
    /\ log.returned = 0 /\ log.freed = <<1, 2>>
    /\ Len(log.allocated) = 1
    /\ Len(log.copies) = 2 /\ log.copies[1].from = 1 /\ log.copies[2].from = 2

\* the sources of a Splice of two clips are the two clips
SpliceOfTwo ==
    (SpliceBuilt /\ Len(in.clips) = 2) =>
        (SpliceFirst = in.clips[1] /\ SpliceSecond = in.clips[2])

\* C26 as stated: every output frame other than the seam frame (index
\* frame_count1 - 1, when len1 is not a multiple of spf) is a plain
\* passthrough of one requested frame: frame n of the first source before
\* the seam, one frame of the second source after it; when len1 is a
\* multiple of spf every frame is.
C26_SplicePassthrough ==
    /\ SpliceOfTwo
    /\ (SpliceDone /\ (SpliceAligned \/ cur # SpliceSeam)) =>
          IF cur < SpliceFirst.ai.numFrames
          THEN PlainPassthrough(requestFrameFilter(cur, SpliceFirst))
          ELSE \E m \in 0 .. cur : PlainPassthrough(requestFrameFilter(m, SpliceSecond))

\* C26 amended: when len1 is a multiple of spf every output frame is a plain
\* passthrough (frame n of the first source for n < frame_count1, frame
\* n - frame_count1 of the second otherwise).  When it is not, only the
\* frames before the seam are; the seam frame is stitched from frame n of
\* the first source and frame 0 of the second, and every later frame from
\* frames n - frame_count1 and n - frame_count1 + 1 of the second source.
C26_SplicePaths ==
    /\ SpliceOfTwo
    /\ SpliceDone =>
          LET fc1 == SpliceFirst.ai.numFrames
          IN  IF SpliceAligned
              THEN IF cur < fc1
                   THEN PlainPassthrough(requestFrameFilter(cur, SpliceFirst))
                   ELSE PlainPassthrough(requestFrameFilter(cur - fc1, SpliceSecond))
              ELSE IF cur < SpliceSeam
              THEN PlainPassthrough(requestFrameFilter(cur, SpliceFirst))
              ELSE IF cur = SpliceSeam
              THEN Stitched(requestFrameFilter(cur, SpliceFirst),
                            requestFrameFilter(0, SpliceSecond))
              ELSE Stitched(requestFrameFilter(cur - fc1, SpliceSecond),
                            requestFrameFilter(cur - fc1 + 1, SpliceSecond))

\* a frame after the seam of a Splice whose first length is not a multiple
\* of spf: stitched from two frames of the second source
C26_Witness ==
    /\ SpliceDone /\ ~SpliceAligned /\ cur > SpliceSeam /\ Len(in.clips) = 2
    /\ Len(reqs) = 2 /\ log.returned = 0
    /\ SumLens(in.clips, 2) <= IntMax

\* the statement restricted to totals inside the `int` range; it fails as well
C26_FitsInt == SpliceFitsInt => C26_SplicePassthrough

----------------------------------------------------------------------------
(* Claims about the copies of AudioTrim and AudioSplice *)

RECURSIVE CopiedSamples(_)
\* the samples the first k copies of the call wrote, per channel
CopiedSamples(k) == IF k = 0 THEN 0 ELSE CopiedSamples(k - 1) + log.copies[k].count

\* the length of the frame the copy reads from
CopySourceLength(c) ==
    LET f == log.fetched[c.from]
    IN  getFrameFilter(f.n, IF "clip" \in DOMAIN f.node THEN f.node.clip ELSE f.node).length

\* every copy of the call stays inside the allocated frame's length and
\* inside the length of the frame it reads, and together the copies fill
\* the allocated length
CopiesFit ==
    /\ Len(log.allocated) = 1
    /\ CopiedSamples(Len(log.copies)) = log.allocated[1]
    /\ \A i \in DOMAIN log.copies :
          LET c == log.copies[i]
          IN  /\ c.count >= 0
              /\ c.dstOff + c.count <= log.allocated[1]
              /\ c.srcOff >= 0
              /\ c.srcOff + c.count <= CopySourceLength(c)

\* C27: in the non-passthrough ready phase of a valid Trim, for every output
\* frame n, the samples copied per channel into the new frame (tail of the
\* first source frame plus head of the second) are as many as the frame's
\* allocated length, and no copy reads past the length of its source frame.
C27_TrimCopies ==
    (/\ pc = "done" /\ TrimBuilt /\ AskedValid
     /\ cur < CeilDiv(AskedTrimLen, SamplesPerFrame)
     /\ ~TrimPassthrough(out.clip.d, cur)) =>
        CopiesFit

\* the same for the inputs whose counts fit `int`; it fails as well
C27_FitsInt == TrimFitsInt => C27_TrimCopies

\* the frames of which the output range reaches the end of the first source
\* frame, inside the `int` range, first > 0; this holds
C27_Straddling ==
    (/\ pc = "done" /\ TrimBuilt /\ AskedValid /\ TrimFitsInt
     /\ cur < CeilDiv(AskedTrimLen, SamplesPerFrame)
     /\ ~TrimPassthrough(out.clip.d, cur)
     /\ TrimNumSrc1Samples(out.clip.d, cur) <= TrimLength(out.clip.d, cur)
     /\ TrimNumSrc1Samples(out.clip.d, cur)
           <= getFrameFilter(TrimStartFrame(out.clip.d, cur), in.clip).length) =>
        CopiesFit

\* the call is a seam or post-seam frame of a Splice whose first source
\* does not end on a frame boundary
SpliceStitching == SpliceDone /\ ~SpliceAligned /\ cur >= SpliceSeam

\* the condition of the assertion of the post-seam branch
SpliceAssertion(d, n) ==
    LET c == SpliceCopyCounts(d, n)
    IN  /\ c.f1copy > 0
        /\ (c.f2copy > 0 \/ (c.f2copy >= 0 /\ n = d.ai.numFrames - 1))

\* C28: for source lengths with len1 not a multiple of spf, on every output
\* frame n >= frame_count1 the assertion of the general path holds (the count
\* taken from the first fetched frame is > 0 and the count from the second
\* is > 0, or 0 only on the last output frame), and on the seam and post-seam
\* frames the two counts are non-negative, add up to the output frame length
\* and each stays inside the length of the frame it is read from.
C28_SpliceCounts ==
    SpliceStitching =>
        /\ (cur > SpliceSeam => SpliceAssertion(out.clip.d, cur))
        /\ (cur > SpliceSeam /\ SpliceCopyCounts(out.clip.d, cur).f2copy = 0
               => cur = out.clip.ai.numFrames - 1)
        /\ Len(log.copies) = 2
        /\ log.copies[1].count = SpliceCopyCounts(out.clip.d, cur).f1copy
        /\ log.copies[2].count = SpliceCopyCounts(out.clip.d, cur).f2copy
        /\ CopiesFit

\* the same for the inputs whose total length fits `int`
C28_FitsInt == SpliceFitsInt => C28_SpliceCounts

\* a post-seam frame that takes samples from both fetched frames, and a last
\* post-seam frame that takes none from the second
C28_Witness ==
    /\ SpliceStitching /\ cur > SpliceSeam
    /\ SpliceCopyCounts(out.clip.d, cur).f1copy > 0
    /\ SpliceCopyCounts(out.clip.d, cur).f2copy > 0

C28_WitnessLast ==
    /\ SpliceStitching /\ cur > SpliceSeam
    /\ SpliceCopyCounts(out.clip.d, cur).f2copy = 0

====
